---- MODULE Spec2Model ----
(***************************************************************************)
(* A model of fast-trips' Assignment: the assignment/simulation loop       *)
(* (assign_paths, assign_passengers), the deterministic trip-based         *)
(* shortest path search, the stochastic hyperpath search with its path     *)
(* sampler, and the event-driven simulation with vehicle capacities.       *)
(*                                                                         *)
(* Time is counted in ticks of 0.001 minute, so that every duration the    *)
(* code uses (999.999 minutes, 0.01 minute) is a whole number.             *)
(***************************************************************************)
EXTENDS Integers, Sequences, FiniteSets, TLC

\* ------------------------------------------------------------------ bounds
NumPax  == 2      \* passengers in FT.passengers
MaxCap  == 1      \* largest vehicle capacity drawn
MaxIter == 2      \* largest ITERATION_FLAG drawn
MaxAttempts == 2  \* MAX_HYPERPATH_ASSIGN_ATTEMPTS drawn (the class default is 1001)
MaxStates == 3    \* states in a list handed to choose_state
MaxWeight == 2    \* largest integer probability drawn for one state
MaxDraw == 8      \* largest random number drawn

\* --------------------------------------------------------------- constants
Minute                        == 1000
MAX_TIME                      == 999999           \* timedelta(minutes = 999.999)
PATH_TIME_WINDOW              == 30 * Minute
\* a variant without the head start on a bumped passenger
ZeroBuffer                    == 0 * Minute
BUMP_BUFFER                   == 5 * Minute
\* a variant that lets a passenger come an hour after the bumped one
LateGrace                     == 0 - 60 * Minute
BUMP_GRACE                    == Minute \div 100  \* timedelta(minutes = 0.01)
MAX_HYPERPATH_ASSIGN_ATTEMPTS == 1001

ASSIGNMENT_TYPE_DET_ASGN == "Deterministic Assignment"
ASSIGNMENT_TYPE_STO_ASGN == "Stochastic Assignment"

DIR_OUTBOUND == "outbound"
DIR_INBOUND  == "inbound"

\* Path.STATE_MODE_*: the walk modes; every other mode is a trip id (1, 2, ..)
STATE_MODE_ACCESS   == -100
STATE_MODE_EGRESS   == -101
STATE_MODE_TRANSFER == -102
WalkModes == {STATE_MODE_ACCESS, STATE_MODE_EGRESS, STATE_MODE_TRANSFER}

STATUS_INITIAL  == "initial"
STATUS_WALKING  == "walking"
STATUS_WAITING  == "waiting"
STATUS_ON_BOARD == "on_board"
STATUS_ARRIVED  == "arrived"
STATUS_BUMPED   == "bumped"

EVENT_TYPE_ARRIVAL   == "Arrival"
EVENT_TYPE_DEPARTURE == "Departure"

Clock(h, m) == (h * 60 + m) * Minute

\* ----------------------------------------------------------------- helpers
Put(f, k, v) == [x \in (DOMAIN f) \cup {k} |-> IF x = k THEN v ELSE f[x]]

EmptyFn == [x \in {} |-> 0]

\* the keys of a dict of small integers, in iteration order
RECURSIVE SortedSeq(_)
SortedSeq(S) ==
    IF S = {} THEN <<>>
    ELSE LET m == CHOOSE x \in S : \A y \in S : x <= y
         IN  <<m>> \o SortedSeq(S \ {m})

Max2(a, b) == IF a >= b THEN a ELSE b

\* ---------------------------------------------------------------- networks
\* A schedule store: trips[trip_id].stops is the trip's stop-time rows
\* <<stop_id, arrival_time, departure_time>>; transfers[stop] and
\* access_links[taz] map a stop to a walk time.
STOPS_IDX_STOP_ID        == 1
STOPS_IDX_ARRIVAL_TIME   == 2
STOPS_IDX_DEPARTURE_TIME == 3

Stops == 1 .. 4
TAZs  == {11, 12, 13}

\* Two trips in a row with a change at stop 2, a third trip reached by a
\* transfer walk 2 -> 4, and a short hop 2 -> 4 from which one can walk back.
NetLine ==
    [trips |-> << [stops |-> << <<1, Clock(7, 0),  Clock(7, 0)>>,
                                <<2, Clock(7, 10), Clock(7, 11)>> >>],
                  [stops |-> << <<2, Clock(7, 15), Clock(7, 15)>>,
                                <<3, Clock(7, 28), Clock(7, 28)>> >>],
                  [stops |-> << <<4, Clock(7, 20), Clock(7, 20)>>,
                                <<3, Clock(7, 30), Clock(7, 30)>> >>],
                  [stops |-> << <<2, Clock(7, 12), Clock(7, 12)>>,
                                <<4, Clock(7, 14), Clock(7, 14)>> >>] >>,
     transfers    |-> [s \in Stops |->
                          IF s = 2 THEN (4 :> 2 * Minute)
                          ELSE IF s = 4 THEN (2 :> 2 * Minute)
                          ELSE EmptyFn],
     is_transfer  |-> [s \in Stops |-> s \in {2, 3, 4}],
     access_links |-> (11 :> (1 :> 5 * Minute)) @@ (12 :> (3 :> 5 * Minute))
                      @@ (13 :> (2 :> 10 * Minute)),
     requests     |-> { [origin_taz_id |-> 11, destination_taz_id |-> 12,
                         direction |-> DIR_OUTBOUND, preferred_time |-> Clock(7, 40)],
                        [origin_taz_id |-> 11, destination_taz_id |-> 12,
                         direction |-> DIR_INBOUND,  preferred_time |-> Clock(6, 50)],
                        [origin_taz_id |-> 13, destination_taz_id |-> 12,
                         direction |-> DIR_OUTBOUND, preferred_time |-> Clock(7, 40)],
                        [origin_taz_id |-> 12, destination_taz_id |-> 12,
                         direction |-> DIR_OUTBOUND, preferred_time |-> Clock(7, 40)] }]

\* One trip X(1) -> Y(2) and a later one on the same stops; 5 minute walks.
NetSingle ==
    [trips |-> << [stops |-> << <<1, Clock(7, 40), Clock(7, 40)>>,
                                <<2, Clock(7, 55), Clock(7, 55)>> >>],
                  [stops |-> << <<1, Clock(7, 50), Clock(7, 50)>>,
                                <<2, Clock(8, 5),  Clock(8, 5)>> >>] >>,
     transfers    |-> [s \in Stops |-> EmptyFn],
     is_transfer  |-> [s \in Stops |-> s \in {1, 2}],
     access_links |-> (11 :> (1 :> 5 * Minute)) @@ (12 :> (2 :> 5 * Minute)),
     requests     |-> { [origin_taz_id |-> 11, destination_taz_id |-> 12,
                         direction |-> DIR_OUTBOUND, preferred_time |-> Clock(8, 0)],
                        [origin_taz_id |-> 11, destination_taz_id |-> 12,
                         direction |-> DIR_OUTBOUND, preferred_time |-> Clock(8, 10)],
                        [origin_taz_id |-> 11, destination_taz_id |-> 12,
                         direction |-> DIR_INBOUND,  preferred_time |-> Clock(7, 30)] }]

\* A round trip 2 -> 1 -> 2 by two trips, then a trip 2 -> 3: an itinerary
\* can call at stop 2 twice.
NetLoop ==
    [trips |-> << [stops |-> << <<2, Clock(6, 40), Clock(6, 40)>>,
                                <<1, Clock(6, 50), Clock(6, 50)>> >>],
                  [stops |-> << <<1, Clock(7, 5),  Clock(7, 5)>>,
                                <<2, Clock(7, 10), Clock(7, 10)>> >>],
                  [stops |-> << <<2, Clock(7, 15), Clock(7, 15)>>,
                                <<3, Clock(7, 28), Clock(7, 28)>> >>] >>,
     transfers    |-> [s \in Stops |-> EmptyFn],
     is_transfer  |-> [s \in Stops |-> s \in {1, 2, 3}],
     access_links |-> (11 :> (2 :> 5 * Minute)) @@ (12 :> (3 :> 5 * Minute)),
     requests     |-> { [origin_taz_id |-> 11, destination_taz_id |-> 12,
                         direction |-> DIR_OUTBOUND, preferred_time |-> Clock(7, 40)],
                        [origin_taz_id |-> 11, destination_taz_id |-> 12,
                         direction |-> DIR_INBOUND,  preferred_time |-> Clock(6, 30)] }]

\* One trip X(1) 07:40 -> Y(2) 07:55, 5 minute walks; one traveller wants to
\* arrive by 08:00, another to leave at 07:20, a third stays in the zone.
NetOne ==
    [trips |-> << [stops |-> << <<1, Clock(7, 40), Clock(7, 40)>>,
                                <<2, Clock(7, 55), Clock(7, 55)>> >>] >>,
     transfers    |-> [s \in Stops |-> EmptyFn],
     is_transfer  |-> [s \in Stops |-> s \in {1, 2}],
     access_links |-> (11 :> (1 :> 5 * Minute)) @@ (12 :> (2 :> 5 * Minute)),
     requests     |-> { [origin_taz_id |-> 11, destination_taz_id |-> 12,
                         direction |-> DIR_OUTBOUND, preferred_time |-> Clock(8, 0)],
                        [origin_taz_id |-> 11, destination_taz_id |-> 12,
                         direction |-> DIR_INBOUND,  preferred_time |-> Clock(7, 20)],
                        [origin_taz_id |-> 11, destination_taz_id |-> 11,
                         direction |-> DIR_OUTBOUND, preferred_time |-> Clock(8, 0)] }]

\* A trip from stop 2 (07:15) to stop 3 (07:28) with a feeder from stop 1
\* that reaches stop 2 at 07:10; stop 4 is a two minute walk from stop 2 and
\* no trip calls there.
NetWalk ==
    [trips |-> << [stops |-> << <<2, Clock(7, 15), Clock(7, 15)>>,
                                <<3, Clock(7, 28), Clock(7, 28)>> >>],
                  [stops |-> << <<1, Clock(7, 0),  Clock(7, 0)>>,
                                <<2, Clock(7, 10), Clock(7, 10)>> >>] >>,
     transfers    |-> [s \in Stops |->
                          IF s = 2 THEN (4 :> 2 * Minute)
                          ELSE IF s = 4 THEN (2 :> 2 * Minute) ELSE EmptyFn],
     is_transfer  |-> [s \in Stops |-> s \in {1, 2, 3, 4}],
     access_links |-> (11 :> (2 :> 5 * Minute)) @@ (12 :> (3 :> 5 * Minute))
                      @@ (13 :> (1 :> 5 * Minute)),
     requests     |-> { [origin_taz_id |-> 11, destination_taz_id |-> 12,
                         direction |-> DIR_OUTBOUND, preferred_time |-> Clock(7, 40)],
                        [origin_taz_id |-> 13, destination_taz_id |-> 12,
                         direction |-> DIR_OUTBOUND, preferred_time |-> Clock(7, 40)],
                        [origin_taz_id |-> 13, destination_taz_id |-> 12,
                         direction |-> DIR_INBOUND,  preferred_time |-> Clock(6, 50)] }]

\* One trip calling at three stops: stop 1 (07:00), stop 2 (arrives 07:10,
\* leaves 07:11) and stop 3 (07:20); TAZ 11 is at stop 1, TAZ 13 at stop 2
\* and TAZ 12 at stop 3.  One traveller can leave TAZ 11 at 06:55 and be at
\* stop 1 just when the trip departs.
NetThrough ==
    [trips |-> << [stops |-> << <<1, Clock(7, 0),  Clock(7, 0)>>,
                                <<2, Clock(7, 10), Clock(7, 11)>>,
                                <<3, Clock(7, 20), Clock(7, 20)>> >>] >>,
     transfers    |-> [s \in Stops |-> EmptyFn],
     is_transfer  |-> [s \in Stops |-> s \in {1, 2, 3}],
     access_links |-> (11 :> (1 :> 5 * Minute)) @@ (12 :> (3 :> 5 * Minute))
                      @@ (13 :> (2 :> 2 * Minute)),
     requests     |-> { [origin_taz_id |-> 11, destination_taz_id |-> 13,
                         direction |-> DIR_OUTBOUND, preferred_time |-> Clock(7, 30)],
                        [origin_taz_id |-> 13, destination_taz_id |-> 12,
                         direction |-> DIR_OUTBOUND, preferred_time |-> Clock(7, 40)],
                        [origin_taz_id |-> 11, destination_taz_id |-> 13,
                         direction |-> DIR_INBOUND,  preferred_time |-> Clock(6, 55)] }]

\* A direct trip from stop 2 (07:10) to stop 3, and a later hop from stop 2
\* (07:12) to stop 4, where a trip to stop 3 leaves at 07:20 and from where
\* one can walk back to stop 2 in two minutes.  TAZ 11 has no access link.
NetBack ==
    [trips |-> << [stops |-> << <<2, Clock(7, 10), Clock(7, 10)>>,
                                <<3, Clock(7, 28), Clock(7, 28)>> >>],
                  [stops |-> << <<4, Clock(7, 20), Clock(7, 20)>>,
                                <<3, Clock(7, 30), Clock(7, 30)>> >>],
                  [stops |-> << <<2, Clock(7, 12), Clock(7, 12)>>,
                                <<4, Clock(7, 14), Clock(7, 14)>> >>] >>,
     transfers    |-> [s \in Stops |->
                          IF s = 2 THEN (4 :> 2 * Minute)
                          ELSE IF s = 4 THEN (2 :> 2 * Minute)
                          ELSE EmptyFn],
     is_transfer  |-> [s \in Stops |-> s \in {2, 3, 4}],
     access_links |-> (11 :> EmptyFn) @@ (12 :> (3 :> 5 * Minute))
                      @@ (13 :> (2 :> 10 * Minute)),
     requests     |-> { [origin_taz_id |-> 13, destination_taz_id |-> 12,
                         direction |-> DIR_OUTBOUND, preferred_time |-> Clock(7, 40)],
                        [origin_taz_id |-> 13, destination_taz_id |-> 11,
                         direction |-> DIR_OUTBOUND, preferred_time |-> Clock(7, 40)] }]

\* the vehicle capacity of each trip: the same for all trips, but the feeder
\* of NetWalk has one seat more than the trip it feeds
Vehicles(net, capacity) ==
    [t \in DOMAIN net.trips |->
        IF net = NetWalk /\ t = 2 THEN capacity + 1 ELSE capacity]

Networks == {NetLine, NetSingle, NetLoop, NetOne, NetWalk, NetThrough, NetBack}

\* ------------------------------------------------------------ Path, Stop
\* Path.outbound(), goes_somewhere(), path_found()
outbound(path) == path.direction = DIR_OUTBOUND

goes_somewhere(path) == path.origin_taz_id # path.destination_taz_id

path_found(states) == Len(states) > 1

DirFactor(path) == IF outbound(path) THEN 1 ELSE -1

StartTaz(path) == IF outbound(path) THEN path.destination_taz_id ELSE path.origin_taz_id

EndTaz(path) == IF outbound(path) THEN path.origin_taz_id ELSE path.destination_taz_id

number_of_stops(ft, trip_id) == Len(ft.trips[trip_id].stops)

\* the visits <<trip_id, seq>> of a stop, in the order of the stop's trip list
StopVisits(ft, stop_id) ==
    LET keys == {t * 100 + q : t \in DOMAIN ft.trips, q \in 1 .. 9}
        mine == {k \in keys :
                    /\ (k % 100) \in DOMAIN ft.trips[k \div 100].stops
                    /\ ft.trips[k \div 100].stops[k % 100][STOPS_IDX_STOP_ID] = stop_id}
        ordered == SortedSeq(mine)
    IN  [i \in 1 .. Len(ordered) |-> <<ordered[i] \div 100, ordered[i] % 100>>]

VisitTime(ft, visit, idx) == ft.trips[visit[1]].stops[visit[2]][idx]

\* Stop.get_trips_arriving_within_time: arrivals in [latest - window, latest]
get_trips_arriving_within_time(ft, stop_id, latest, window) ==
    LET all  == StopVisits(ft, stop_id)
        keep == SelectSeq(all, LAMBDA v :
                    /\ VisitTime(ft, v, STOPS_IDX_ARRIVAL_TIME) <= latest
                    /\ VisitTime(ft, v, STOPS_IDX_ARRIVAL_TIME) >= latest - window)
    IN  [i \in 1 .. Len(keep) |->
            <<keep[i][1], keep[i][2], VisitTime(ft, keep[i], STOPS_IDX_ARRIVAL_TIME)>>]

\* Stop.get_trips_departing_within_time: departures in [earliest, earliest + window]
get_trips_departing_within_time(ft, stop_id, earliest, window) ==
    LET all  == StopVisits(ft, stop_id)
        keep == SelectSeq(all, LAMBDA v :
                    /\ VisitTime(ft, v, STOPS_IDX_DEPARTURE_TIME) >= earliest
                    /\ VisitTime(ft, v, STOPS_IDX_DEPARTURE_TIME) <= earliest + window)
    IN  [i \in 1 .. Len(keep) |->
            <<keep[i][1], keep[i][2], VisitTime(ft, keep[i], STOPS_IDX_DEPARTURE_TIME)>>]

\* "raise Exception("get_scheduled_departure: stop %s not find for trip %s" ...)"
StopNotFound(trip_id, stop_id) ==
    [exception |-> << "get_scheduled_departure: stop %s not find for trip %s",
                      stop_id, trip_id >>]

\* a variant that goes on to the last row with that stop id
RECURSIVE ScanDepartureLast(_, _, _)
ScanDepartureLast(stop_times, trip_id, stop_id) ==
    IF stop_times = << >> THEN StopNotFound(trip_id, stop_id)
    ELSE IF stop_times[Len(stop_times)][STOPS_IDX_STOP_ID] = stop_id
    THEN [time |-> stop_times[Len(stop_times)][STOPS_IDX_DEPARTURE_TIME]]
    ELSE ScanDepartureLast(SubSeq(stop_times, 1, Len(stop_times) - 1),
                           trip_id, stop_id)

\* "for seq, row in ...iterrows(): if row[stop_id] == stop_id: return
\* row[departure_time]", and the raise after the loop
RECURSIVE ScanDeparture(_, _, _)
ScanDeparture(stop_times, trip_id, stop_id) ==
    IF stop_times = << >> THEN StopNotFound(trip_id, stop_id)
    ELSE IF Head(stop_times)[STOPS_IDX_STOP_ID] = stop_id
    THEN [time |-> Head(stop_times)[STOPS_IDX_DEPARTURE_TIME]]
    ELSE ScanDeparture(Tail(stop_times), trip_id, stop_id)

\* Trip.get_scheduled_departure where the trip serves the stop: the
\* departure time of the first row of the trip with that stop id
get_scheduled_departure(ft, trip_id, stop_id) ==
    ScanDeparture(ft.trips[trip_id].stops, trip_id, stop_id).time

\* path.states is an ordered dict: a sequence of states, each carrying its key
DictPut(states, key, state) ==
    LET entry == [stop |-> key] @@ state
    IN  IF \E i \in DOMAIN states : states[i].stop = key
        THEN [i \in DOMAIN states |-> IF states[i].stop = key THEN entry ELSE states[i]]
        ELSE Append(states, entry)

\* --------------------------------------- find_trip_based_shortest_path
OldLabel(stop_states, stop_id) ==
    IF stop_id \in DOMAIN stop_states THEN stop_states[stop_id].label ELSE MAX_TIME

\* a variant that stores the new state whatever the old label is
RelaxAlways(st, stop_id, new_state) ==
    [st EXCEPT !.stop_states = Put(@, stop_id, new_state),
               !.stop_queue  = @ \cup {<<new_state.label, stop_id>>}]

\* "if new_label < old_label: stop_states[..] = [...]; stop_queue.put(...)"
Relax(st, stop_id, new_state) ==
    IF new_state.label < OldLabel(st.stop_states, stop_id)
    THEN [st EXCEPT !.stop_states = Put(@, stop_id, new_state),
                    !.stop_queue  = @ \cup {<<new_state.label, stop_id>>}]
    ELSE st

\* a variant whose seeds take the walk on the wrong side of the preferred time
DetSeedWalkAfter(ft, path) ==
    LET links == ft.access_links[StartTaz(path)]
        pref  == path.preferred_time
    IN  [stop_states |->
            [s \in DOMAIN links |->
                [label      |-> links[s],
                 deparr     |-> pref + links[s] * DirFactor(path),
                 deparrmode |-> IF outbound(path) THEN STATE_MODE_EGRESS
                                                  ELSE STATE_MODE_ACCESS,
                 succpred   |-> StartTaz(path),
                 linktime   |-> links[s]]],
         stop_queue  |-> {<<links[s], s>> : s \in DOMAIN links},
         stop_done   |-> {},
         trips_used  |-> {},
         label_iterations |-> 0]

\* the seeds: one state per access link of the start TAZ
DetSeed(ft, path) ==
    LET links == ft.access_links[StartTaz(path)]
        pref  == path.preferred_time
    IN  [stop_states |->
            [s \in DOMAIN links |->
                [label      |-> links[s],
                 deparr     |-> pref - links[s] * DirFactor(path),
                 deparrmode |-> IF outbound(path) THEN STATE_MODE_EGRESS
                                                  ELSE STATE_MODE_ACCESS,
                 succpred   |-> StartTaz(path),
                 linktime   |-> links[s]]],
         stop_queue  |-> {<<links[s], s>> : s \in DOMAIN links},
         stop_done   |-> {},
         trips_used  |-> {},
         label_iterations |-> 0]

\* one transfer out of the popped stop (the body of the loop over transfers)
DetTransferStep(ft, bw, path, cur, cur_label, cs, xfer_stop_id, st) ==
    LET xt      == ft.transfers[cur][xfer_stop_id]
        key     == <<cs.deparrmode, cur>>
        waiting == outbound(path) /\ key \in DOMAIN bw
        plain   == cs.deparr - xt * DirFactor(path)
    IN  IF waiting /\ plain - PATH_TIME_WINDOW > bw[key]
        THEN st
        ELSE Relax(st, xfer_stop_id,
                   [label      |-> IF waiting
                                   THEN cur_label + xt + (cs.deparr - bw[key]) + BUMP_BUFFER
                                   ELSE cur_label + xt,
                    deparr     |-> IF waiting THEN bw[key] - xt - BUMP_BUFFER ELSE plain,
                    deparrmode |-> STATE_MODE_TRANSFER,
                    succpred   |-> cur,
                    linktime   |-> xt])

RECURSIVE DetRelaxTransfers(_, _, _, _, _, _, _, _)
DetRelaxTransfers(ft, bw, path, cur, cur_label, cs, xs, st) ==
    IF xs = <<>> THEN st
    ELSE DetRelaxTransfers(ft, bw, path, cur, cur_label, cs, Tail(xs),
                           DetTransferStep(ft, bw, path, cur, cur_label, cs, Head(xs), st))

\* the stops of the trip that can be boarded (outbound) or alighted at (inbound)
RECURSIVE DetBoardAlights(_, _, _, _, _, _, _, _, _)
DetBoardAlights(ft, path, cur, cur_label, trip_id, arrdep, wait_time, seqs, st) ==
    IF seqs = <<>> THEN st
    ELSE LET row    == ft.trips[trip_id].stops[Head(seqs)]
             deparr == IF outbound(path) THEN row[STOPS_IDX_DEPARTURE_TIME]
                                         ELSE row[STOPS_IDX_ARRIVAL_TIME]
             in_vehicle_time == (arrdep - deparr) * DirFactor(path)
         IN  DetBoardAlights(ft, path, cur, cur_label, trip_id, arrdep, wait_time, Tail(seqs),
                 Relax(st, row[STOPS_IDX_STOP_ID],
                       [label      |-> cur_label + in_vehicle_time + wait_time,
                        deparr     |-> deparr,
                        deparrmode |-> trip_id,
                        succpred   |-> cur,
                        linktime   |-> in_vehicle_time + wait_time]))

\* a variant whose inbound range stops one short of the last stop
TripSeqListShort(ft, path, trip_id, seq) ==
    IF outbound(path)
    THEN [i \in 1 .. (seq - 1) |-> seq - i]
    ELSE [i \in 1 .. (number_of_stops(ft, trip_id) - seq - 1) |-> seq + i]

TripSeqList(ft, path, trip_id, seq) ==
    IF outbound(path)
    THEN [i \in 1 .. (seq - 1) |-> seq - i]
    ELSE [i \in 1 .. (number_of_stops(ft, trip_id) - seq) |-> seq + i]

\* one valid trip <<trip_id, seq, arrdep_time>> at the popped stop
DetTripStep(ft, bw, path, cur, cur_label, cs, v, st) ==
    LET trip_id   == v[1]
        arrdep    == v[3]
        wait_time == (cs.deparr - arrdep) * DirFactor(path)
        check_for_bump_wait == IF outbound(path) THEN <<cs.deparrmode, cur>>
                                                 ELSE <<trip_id, cur>>
        arrive    == IF outbound(path) THEN arrdep ELSE cs.deparr
    IN  IF trip_id \in st.trips_used THEN st
        ELSE IF /\ check_for_bump_wait \in DOMAIN bw
                /\ arrive + BUMP_GRACE >= bw[check_for_bump_wait]
                /\ cs.deparrmode # trip_id
        THEN st
        ELSE DetBoardAlights(ft, path, cur, cur_label, trip_id, arrdep, wait_time,
                             TripSeqList(ft, path, trip_id, v[2]),
                             [st EXCEPT !.trips_used = @ \cup {trip_id}])

RECURSIVE DetRelaxTrips(_, _, _, _, _, _, _, _)
DetRelaxTrips(ft, bw, path, cur, cur_label, cs, vs, st) ==
    IF vs = <<>> THEN st
    ELSE DetRelaxTrips(ft, bw, path, cur, cur_label, cs, Tail(vs),
                       DetTripStep(ft, bw, path, cur, cur_label, cs, Head(vs), st))

\* the smallest (label, stop_id) of the priority queue
QueueHead(stop_queue) ==
    CHOOSE e \in stop_queue :
        \A f \in stop_queue : e[1] < f[1] \/ (e[1] = f[1] /\ e[2] <= f[2])

\* a variant of the pass that relaxes the popped stop even when it is done
DetLabelStepAgain(ft, bw, path, st) ==
    LET e   == QueueHead(st.stop_queue)
        cur == e[2]
        cs  == st.stop_states[cur]
        popped == [st EXCEPT !.stop_queue = @ \ {e}]
        marked == [popped EXCEPT !.stop_done = @ \cup {cur}]
        xferred == IF cs.deparrmode \notin WalkModes
                   THEN DetRelaxTransfers(ft, bw, path, cur, e[1], cs,
                                          SortedSeq(DOMAIN ft.transfers[cur]), marked)
                   ELSE marked
        valid_trips == IF outbound(path)
                       THEN get_trips_arriving_within_time(ft, cur, cs.deparr, PATH_TIME_WINDOW)
                       ELSE get_trips_departing_within_time(ft, cur, cs.deparr, PATH_TIME_WINDOW)
        tripped == DetRelaxTrips(ft, bw, path, cur, e[1], cs, valid_trips, xferred)
    IN  [tripped EXCEPT !.label_iterations = @ + 1]

\* one pass of the labeling loop: pop, skip a finished stop, else relax
DetLabelStep(ft, bw, path, st) ==
    LET e   == QueueHead(st.stop_queue)
        cur == e[2]
        cs  == st.stop_states[cur]
        popped == [st EXCEPT !.stop_queue = @ \ {e}]
        marked == [popped EXCEPT !.stop_done = @ \cup {cur}]
        xferred == IF cs.deparrmode \notin WalkModes
                   THEN DetRelaxTransfers(ft, bw, path, cur, e[1], cs,
                                          SortedSeq(DOMAIN ft.transfers[cur]), marked)
                   ELSE marked
        valid_trips == IF outbound(path)
                       THEN get_trips_arriving_within_time(ft, cur, cs.deparr, PATH_TIME_WINDOW)
                       ELSE get_trips_departing_within_time(ft, cur, cs.deparr, PATH_TIME_WINDOW)
        tripped == DetRelaxTrips(ft, bw, path, cur, e[1], cs, valid_trips, xferred)
    IN  IF cur \in st.stop_done THEN popped
        ELSE [tripped EXCEPT !.label_iterations = @ + 1]

\* "taz_state = (MAX_TIME, 0, "", 0)"
NoTazState ==
    [label |-> MAX_TIME, deparr |-> 0, deparrmode |-> 0, succpred |-> 0, linktime |-> 0]

\* a variant that lets any stop state lead to the end TAZ
FirstLegMayWalk(stop_state) == TRUE

\* "first leg has to be a trip"
FirstLegIsTrip(stop_state) == stop_state.deparrmode \notin WalkModes

\* one access link of the end TAZ (the body of the loop over its access links)
DetTazStep(ft, bw, path, stop_states, stop_id, taz_state) ==
    LET link == ft.access_links[EndTaz(path)][stop_id]
        ss   == stop_states[stop_id]
        key  == <<ss.deparrmode, stop_id>>
        waiting == outbound(path) /\ key \in DOMAIN bw
        plain   == ss.deparr - link * DirFactor(path)
        new_taz_state ==
            [label      |-> IF waiting
                            THEN ss.label + link + (ss.deparr - bw[key]) + BUMP_BUFFER
                            ELSE ss.label + link,
             deparr     |-> IF waiting THEN bw[key] - link - BUMP_BUFFER ELSE plain,
             deparrmode |-> IF outbound(path) THEN STATE_MODE_ACCESS ELSE STATE_MODE_EGRESS,
             succpred   |-> stop_id,
             linktime   |-> link]
    IN  IF stop_id \notin DOMAIN stop_states THEN taz_state
        ELSE IF ~FirstLegIsTrip(ss) THEN taz_state
        ELSE IF waiting /\ plain - PATH_TIME_WINDOW > bw[key] THEN taz_state
        ELSE IF new_taz_state.label < taz_state.label THEN new_taz_state
        ELSE taz_state

RECURSIVE DetTazScan(_, _, _, _, _, _)
DetTazScan(ft, bw, path, stop_states, stop_ids, taz_state) ==
    IF stop_ids = <<>> THEN taz_state
    ELSE DetTazScan(ft, bw, path, stop_states, Tail(stop_ids),
                    DetTazStep(ft, bw, path, stop_states, Head(stop_ids), taz_state))

DetTazState(ft, bw, path, stop_states) ==
    DetTazScan(ft, bw, path, stop_states,
               SortedSeq(DOMAIN ft.access_links[EndTaz(path)]), NoTazState)

\* "while stop_state[DEPARRMODE] != final_state_type: ... path.states[stop_id] = stop_state"
RECURSIVE DetFollow(_, _, _, _)
DetFollow(stop_states, final_state_type, stop_state, states) ==
    IF stop_state.deparrmode = final_state_type THEN states
    ELSE DetFollow(stop_states, final_state_type, stop_states[stop_state.succpred],
                   DictPut(states, stop_state.succpred, stop_states[stop_state.succpred]))

\* delay_inbound_path_departure: the new path.states (empty when the path is reset)
delay_inbound_path_departure(ft, bw, path, states) ==
    LET first_trip_idx   == Len(states) - 1
        first_trip_state == states[first_trip_idx]
        first_trip_board_stop  == first_trip_state.succpred
        first_trip_alight_stop == first_trip_state.stop
        first_trip       == first_trip_state.deparrmode
        linktime == get_scheduled_departure(ft, first_trip, first_trip_alight_stop)
                    - get_scheduled_departure(ft, first_trip, first_trip_board_stop)
        stop_depart_time == first_trip_state.deparr - linktime
        access_idx   == Len(states)
        access_state == states[access_idx]
        key          == <<first_trip, first_trip_board_stop>>
        start_time   == Max2(path.preferred_time, bw[key] - access_state.linktime - BUMP_BUFFER)
        delayed == [states EXCEPT ![first_trip_idx].linktime = linktime,
                                  ![access_idx].deparr = stop_depart_time]
    IN  IF key \notin DOMAIN bw THEN delayed
        ELSE IF path.preferred_time + access_state.linktime + BUMP_GRACE >= bw[key]
        THEN <<>>
        ELSE [delayed EXCEPT
                ![access_idx].deparr = start_time + access_state.linktime,
                ![first_trip_idx].linktime =
                    first_trip_state.deparr - (start_time + access_state.linktime)]

\* a variant that leaves in the path what an earlier search put there
KeepStates(path_states) == path_states

\* "path.reset_states()"
reset_states(path_states) == <<>>

\* "Put results into path": the new path.states of the passenger
DetPathStates(ft, bw, path, path_states, stop_states) ==
    LET taz_state == DetTazState(ft, bw, path, stop_states)
        final_state_type == IF outbound(path) THEN STATE_MODE_EGRESS ELSE STATE_MODE_ACCESS
        emptied == reset_states(path_states)
        states == DetFollow(stop_states, final_state_type, taz_state,
                            DictPut(emptied, EndTaz(path), taz_state))
    IN  IF taz_state.label = MAX_TIME THEN emptied
        ELSE IF ~outbound(path) /\ Len(states) >= 2
        THEN delay_inbound_path_departure(ft, bw, path, states)
        ELSE states

\* "while not stop_queue.empty()": the labeling loop run to its end
RECURSIVE DetLabelAll(_, _, _, _)
DetLabelAll(ft, bw, path, st) ==
    IF st.stop_queue = {} THEN st
    ELSE DetLabelAll(ft, bw, path, DetLabelStep(ft, bw, path, st))

\* one whole call: the path.states it leaves in a path that held path_states
find_trip_based_shortest_path(ft, bw, path, path_states) ==
    DetPathStates(ft, bw, path, path_states,
                  DetLabelAll(ft, bw, path, DetSeed(ft, path)).stop_states)

\* ------------------------------------------------------------- FT.events
\* every stop-time row gives an ARRIVAL and a DEPARTURE event; the stream is
\* sorted by time, then stop, trip and type (ARRIVAL first)
EventKey(time, stop_id, trip_id, is_departure) ==
    ((time * 10 + stop_id) * 10 + trip_id) * 2 + (IF is_departure THEN 1 ELSE 0)

EventOfKey(k) ==
    [event_time |-> k \div 200,
     stop_id    |-> (k \div 20) % 10,
     trip_id    |-> (k \div 2) % 10,
     event_type |-> IF k % 2 = 1 THEN EVENT_TYPE_DEPARTURE ELSE EVENT_TYPE_ARRIVAL]

Events(trips) ==
    LET rows == {<<t, q>> \in (DOMAIN trips) \X (1 .. 9) : q \in DOMAIN trips[t].stops}
        keys == {EventKey(trips[r[1]].stops[r[2]][STOPS_IDX_ARRIVAL_TIME],
                          trips[r[1]].stops[r[2]][STOPS_IDX_STOP_ID], r[1], FALSE) : r \in rows}
                \cup
                {EventKey(trips[r[1]].stops[r[2]][STOPS_IDX_DEPARTURE_TIME],
                          trips[r[1]].stops[r[2]][STOPS_IDX_STOP_ID], r[1], TRUE) : r \in rows}
        ordered == SortedSeq(keys)
    IN  [i \in 1 .. Len(ordered) |-> EventOfKey(ordered[i])]

\* ----------------------------------------------------------------- simulate
Last(seq) == seq[Len(seq)]

Remove(seq, x) == SelectSeq(seq, LAMBDA y : y # x)

\* the locals of simulate after its "reset" loop
SimReset(ft, pax) ==
    LET loaded == {p \in DOMAIN pax : goes_somewhere(pax[p].path) /\ path_found(pax[p].states)}
    IN  [trip_pax   |-> [t \in DOMAIN ft.trips |-> <<>>],
         stop_pax   |-> [x \in Stops |-> <<>>],
         passenger_id_to_state |->
             [p \in loaded |-> [status   |-> STATUS_WALKING,
                                path_idx |-> IF outbound(pax[p].path) THEN 1
                                             ELSE Len(pax[p].states)]],
         transfer_passengers     |-> SortedSeq(loaded),
         passenger_arrivals      |-> [p \in DOMAIN pax |-> <<>>],
         passenger_boards        |-> [p \in DOMAIN pax |-> <<>>],
         passenger_alights       |-> [p \in DOMAIN pax |-> <<>>],
         passenger_dest_arrivals |-> EmptyFn,
         trip_boards  |-> [t \in DOMAIN ft.trips |-> <<>>],
         trip_alights |-> [t \in DOMAIN ft.trips |-> <<>>],
         trip_dwells  |-> [t \in DOMAIN ft.trips |-> <<>>],
         passengers_arrived |-> 0,
         passengers_bumped  |-> 0,
         events_simulated   |-> 0]

Step(pax, p, idx) == IF outbound(pax[p].path) THEN idx + 1 ELSE idx - 1

\* a variant in which the alighting passenger keeps its place in trip_pax
SimAlightKeepsSeat(pax, event, p, sm) ==
    LET path_idx    == sm.passenger_id_to_state[p].path_idx
        path_state  == pax[p].states[path_idx]
        alight_stop == IF outbound(pax[p].path) THEN path_state.succpred ELSE path_state.stop
    IN  IF alight_stop # event.stop_id THEN sm
        ELSE [sm EXCEPT
                !.passenger_id_to_state[p] =
                    [status |-> STATUS_WALKING, path_idx |-> Step(pax, p, path_idx)],
                !.passenger_alights[p] = Append(@, event.event_time),
                !.transfer_passengers  = Append(@, p)]

\* ARRIVAL: one passenger on board of the event's trip
SimAlightStep(pax, event, p, sm) ==
    LET path_idx    == sm.passenger_id_to_state[p].path_idx
        path_state  == pax[p].states[path_idx]
        alight_stop == IF outbound(pax[p].path) THEN path_state.succpred ELSE path_state.stop
    IN  IF alight_stop # event.stop_id THEN sm
        ELSE [sm EXCEPT
                !.passenger_id_to_state[p] =
                    [status |-> STATUS_WALKING, path_idx |-> Step(pax, p, path_idx)],
                !.passenger_alights[p] = Append(@, event.event_time),
                !.transfer_passengers  = Append(@, p),
                !.trip_pax[event.trip_id] = Remove(@, p)]

RECURSIVE SimAlights(_, _, _, _)
SimAlights(pax, event, ps, sm) ==
    IF ps = <<>> THEN sm
    ELSE SimAlights(pax, event, Tail(ps), SimAlightStep(pax, event, Head(ps), sm))

\* a variant of the ARRIVAL branch that records no alighting
SimArrivalUncounted(pax, event, sm) ==
    LET after == SimAlights(pax, event, sm.trip_pax[event.trip_id], sm)
    IN  [after EXCEPT !.trip_alights[event.trip_id] = Append(@, 0)]

SimArrival(pax, event, sm) ==
    LET after == SimAlights(pax, event, sm.trip_pax[event.trip_id], sm)
        num_alights == Len(sm.trip_pax[event.trip_id]) - Len(after.trip_pax[event.trip_id])
    IN  [after EXCEPT !.trip_alights[event.trip_id] = Append(@, num_alights)]

\* DEPARTURE, first loop: one walking passenger
SimWalkStep(pax, event, p, sm) ==
    LET path        == pax[p].path
        states      == pax[p].states
        path_idx    == sm.passenger_id_to_state[p].path_idx
        path_state  == states[path_idx]
        alight_time == IF outbound(path) /\ path_idx = 1 THEN path_state.deparr
                       ELSE IF ~outbound(path) /\ path_idx = Len(states)
                       THEN path_state.deparr - path_state.linktime
                       ELSE Last(sm.passenger_alights[p])
        walks       == path_state.deparrmode \in WalkModes
        walk_time   == IF walks THEN path_state.linktime ELSE 0
        board_stop  == IF walks = outbound(path) THEN path_state.succpred ELSE path_state.stop
        new_path_idx == IF walks THEN Step(pax, p, path_idx) ELSE path_idx
        arrive_time == alight_time + walk_time
    IN  IF ~(event.event_time >= arrive_time) THEN sm
        ELSE IF path_state.deparrmode = STATE_MODE_EGRESS
        THEN [sm EXCEPT
                !.passenger_id_to_state[p] =
                    [status |-> STATUS_ARRIVED, path_idx |-> new_path_idx],
                !.passenger_dest_arrivals = Put(@, p, arrive_time),
                !.passengers_arrived  = @ + 1,
                !.transfer_passengers = Remove(@, p)]
        ELSE [sm EXCEPT
                !.passenger_id_to_state[p] =
                    [status |-> STATUS_WAITING, path_idx |-> new_path_idx],
                !.stop_pax[board_stop]  = Append(@, p),
                !.passenger_arrivals[p] = Append(@, arrive_time),
                !.transfer_passengers   = Remove(@, p)]

RECURSIVE SimWalks(_, _, _, _)
SimWalks(pax, event, ps, sm) ==
    IF ps = <<>> THEN sm
    ELSE SimWalks(pax, event, Tail(ps), SimWalkStep(pax, event, Head(ps), sm))

\* a variant that bumps only once the vehicle is over capacity
MustBumpWhenOver(capacity_constraint, capacity, on_board) ==
    capacity_constraint /\ capacity - on_board < 0

\* "if CAPACITY_CONSTRAINT and available_capacity == 0"
MustBump(capacity_constraint, capacity, on_board) ==
    capacity_constraint /\ capacity - on_board = 0

\* a variant that keeps the latest arrival instead of the earliest
BumpWaitKeepLatest(bw, key, arrival) ==
    IF key \notin DOMAIN bw \/ bw[key] < arrival THEN Put(bw, key, arrival) ELSE bw

\* a variant that rebinds bump_wait to the one pair it stores
BumpWaitOnlyLast(bw, key, arrival) ==
    IF key \notin DOMAIN bw \/ bw[key] > arrival THEN (key :> arrival) ELSE bw

\* "update bump_wait"
BumpWaitUpdate(bw, key, arrival) ==
    IF key \notin DOMAIN bw \/ bw[key] > arrival THEN Put(bw, key, arrival) ELSE bw

\* a variant of the second loop that lets a waiting passenger board
\* whatever trip leaves the stop
SimBoardAnyTrip(ft, cfg, pax, event, p, sm) ==
    LET path_idx   == sm.passenger_id_to_state[p].path_idx
    IN  IF MustBump(cfg.CAPACITY_CONSTRAINT, ft.capacity[event.trip_id],
                    Len(sm.trip_pax[event.trip_id]))
        THEN [sm EXCEPT
                !.passenger_id_to_state[p] = [status |-> STATUS_BUMPED, path_idx |-> -1],
                !.bump_wait = BumpWaitUpdate(@, <<event.trip_id, event.stop_id>>,
                                             Last(sm.passenger_arrivals[p])),
                !.passengers_bumped = @ + 1,
                !.stop_pax[event.stop_id] = Remove(@, p)]
        ELSE [sm EXCEPT
                !.trip_pax[event.trip_id] = Append(@, p),
                !.passenger_id_to_state[p] = [status |-> STATUS_ON_BOARD, path_idx |-> path_idx],
                !.passenger_boards[p] = Append(@, event.event_time),
                !.stop_pax[event.stop_id] = Remove(@, p)]

\* DEPARTURE, second loop: one passenger waiting at the event's stop
SimBoardStep(ft, cfg, pax, event, p, sm) ==
    LET path_idx   == sm.passenger_id_to_state[p].path_idx
        path_state == pax[p].states[path_idx]
    IN  IF path_state.deparrmode # event.trip_id THEN sm
        ELSE IF MustBump(cfg.CAPACITY_CONSTRAINT, ft.capacity[event.trip_id],
                         Len(sm.trip_pax[event.trip_id]))
        THEN [sm EXCEPT
                !.passenger_id_to_state[p] = [status |-> STATUS_BUMPED, path_idx |-> -1],
                !.bump_wait = BumpWaitUpdate(@, <<event.trip_id, event.stop_id>>,
                                             Last(sm.passenger_arrivals[p])),
                !.passengers_bumped = @ + 1,
                !.stop_pax[event.stop_id] = Remove(@, p)]
        ELSE [sm EXCEPT
                !.trip_pax[event.trip_id] = Append(@, p),
                !.passenger_id_to_state[p] = [status |-> STATUS_ON_BOARD, path_idx |-> path_idx],
                !.passenger_boards[p] = Append(@, event.event_time),
                !.stop_pax[event.stop_id] = Remove(@, p)]

RECURSIVE SimBoards(_, _, _, _, _, _)
SimBoards(ft, cfg, pax, event, ps, sm) ==
    IF ps = <<>> THEN sm
    ELSE SimBoards(ft, cfg, pax, event, Tail(ps), SimBoardStep(ft, cfg, pax, event, Head(ps), sm))

SimDeparture(ft, cfg, pax, event, sm) ==
    LET walked  == SimWalks(pax, event, sm.transfer_passengers, sm)
        boarded == SimBoards(ft, cfg, pax, event, walked.stop_pax[event.stop_id], walked)
        num_boards == Len(boarded.trip_pax[event.trip_id]) - Len(walked.trip_pax[event.trip_id])
    IN  [boarded EXCEPT
            !.trip_boards[event.trip_id] = Append(@, num_boards),
            !.trip_dwells[event.trip_id] =
                Append(@, <<num_boards, Last(boarded.trip_alights[event.trip_id])>>)]

\* one event of "for event in FT.events"; sm carries simulate's locals and bump_wait
SimEvent(ft, cfg, pax, event, sm) ==
    LET handled == IF event.event_type = EVENT_TYPE_ARRIVAL
                   THEN SimArrival(pax, event, sm)
                   ELSE SimDeparture(ft, cfg, pax, event, sm)
    IN  [handled EXCEPT !.events_simulated = @ + 1]

\* "Put results into path": Passenger.set_experienced_status_and_times
SimResults(pax, sm) ==
    [p \in DOMAIN pax |->
        [pax[p] EXCEPT
            !.simulation_status = IF p \in DOMAIN sm.passenger_id_to_state
                                  THEN sm.passenger_id_to_state[p].status
                                  ELSE STATUS_INITIAL,
            !.experienced_arrival_times = sm.passenger_arrivals[p],
            !.experienced_destination_arrival =
                IF p \in DOMAIN sm.passenger_dest_arrivals
                THEN sm.passenger_dest_arrivals[p] ELSE -1]]

\* ------------------------------------------------ find_trip_based_hyperpath
\* Labels and costs are real numbers built from exp/log and from the cost
\* weights of Path; the model keeps of them what decides the control flow:
\* whether a cost is the MAX_COST sentinel (cost = MAX_COST) or an ordinary
\* cost (cost = 0).  The queue is the set of stops with a pending entry and
\* the pop order is left open; the sampler may draw any state whose cost is
\* not the sentinel (a sentinel cost has probability int(1000 * 0.0) = 0).
MAX_COST     == 999999
MAX_DATETIME == Clock(48, 0)

HypState(deparr, mode, succpred, linktime, cost, arrival) ==
    [deparr |-> deparr, deparrmode |-> mode, succpred |-> succpred,
     linktime |-> linktime, cost |-> cost, arrival |-> arrival]

HypSeed(ft, path) ==
    LET links == ft.access_links[StartTaz(path)]
    IN  [stop_states |->
            [s \in Stops |->
                IF s \in DOMAIN links
                THEN << HypState(path.preferred_time - links[s] * DirFactor(path),
                                 IF outbound(path) THEN STATE_MODE_EGRESS
                                                   ELSE STATE_MODE_ACCESS,
                                 StartTaz(path), links[s], 0, MAX_DATETIME) >>
                ELSE <<>>],
         stop_queue  |-> DOMAIN links,
         stop_done   |-> {},
         trips_used  |-> {},
         label_iterations |-> 0]

\* max (outbound) or min (inbound) of the states' deparr
RECURSIVE FoldTime(_, _, _)
FoldTime(states, acc, take_max) ==
    IF states = <<>> THEN acc
    ELSE FoldTime(Tail(states),
                  IF take_max = (Head(states).deparr > acc) THEN Head(states).deparr ELSE acc,
                  take_max)

LatestDepEarliestArr(path, states) == FoldTime(Tail(states), Head(states).deparr, outbound(path))

EarliestDepLatestArr(path, states) == FoldTime(Tail(states), Head(states).deparr, ~outbound(path))

\* calculate_nonwalk_label: not_found_value unless some state is a trip state
calculate_nonwalk_label(state_list, not_found_value) ==
    IF \E i \in DOMAIN state_list : state_list[i].deparrmode \notin WalkModes
    THEN 0 ELSE not_found_value

\* "if new_label < MAX_COST and new_label > 0: stop_states[..].append(..)"
HypAppend(st, stop_id, new_state) ==
    IF st.stop_states[stop_id] # <<>> \/ new_state.cost < MAX_COST
    THEN [st EXCEPT !.stop_states[stop_id] = Append(@, new_state),
                    !.stop_queue = @ \cup {stop_id}]
    ELSE st

\* the hyperpath relaxes transfers unless the first state of the stop is
\* an access or egress state
HypTransfersFrom(current_mode) ==
    current_mode \notin {STATE_MODE_EGRESS, STATE_MODE_ACCESS}

RECURSIVE HypRelaxTransfers(_, _, _, _, _, _, _)
HypRelaxTransfers(ft, path, cur, lde, nonwalk_label, xs, st) ==
    IF xs = <<>> THEN st
    ELSE LET xt == ft.transfers[cur][Head(xs)]
         IN  HypRelaxTransfers(ft, path, cur, lde, nonwalk_label, Tail(xs),
                 HypAppend(st, Head(xs),
                           HypState(lde - xt * DirFactor(path), STATE_MODE_TRANSFER,
                                    cur, xt, nonwalk_label, MAX_DATETIME)))

RECURSIVE HypBoardAlights(_, _, _, _, _, _, _, _)
HypBoardAlights(ft, path, cur, trip_id, arrdep, wait_time, seqs, st) ==
    IF seqs = <<>> THEN st
    ELSE LET row    == ft.trips[trip_id].stops[Head(seqs)]
             b      == row[STOPS_IDX_STOP_ID]
             deparr == IF outbound(path) THEN row[STOPS_IDX_DEPARTURE_TIME]
                                         ELSE row[STOPS_IDX_ARRIVAL_TIME]
             in_vehicle_time == (arrdep - deparr) * DirFactor(path)
             skip   == /\ st.stop_states[b] # <<>>
                       /\ st.stop_states[b][1].deparrmode
                              \in {STATE_MODE_EGRESS, STATE_MODE_ACCESS}
         IN  HypBoardAlights(ft, path, cur, trip_id, arrdep, wait_time, Tail(seqs),
                 IF skip THEN st
                 ELSE HypAppend(st, b,
                                HypState(deparr, trip_id, cur,
                                         in_vehicle_time + wait_time, 0, arrdep)))

HypTripSeqList(ft, path, trip_id, seq) ==
    IF outbound(path)
    THEN [i \in 1 .. (seq - 1) |-> i]
    ELSE [i \in 1 .. (number_of_stops(ft, trip_id) - seq) |-> seq + i]

RECURSIVE HypRelaxTrips(_, _, _, _, _, _)
HypRelaxTrips(ft, path, cur, lde, vs, st) ==
    IF vs = <<>> THEN st
    ELSE LET v == Head(vs)
         IN  HypRelaxTrips(ft, path, cur, lde, Tail(vs),
                 IF v[1] \in st.trips_used THEN st
                 ELSE HypBoardAlights(ft, path, cur, v[1], v[3],
                                      (lde - v[3]) * DirFactor(path),
                                      HypTripSeqList(ft, path, v[1], v[2]),
                                      [st EXCEPT !.trips_used = @ \cup {v[1]}]))

\* one pass of the labeling loop for the popped stop cur
HypLabelStep(ft, path, cur, st) ==
    LET cs     == st.stop_states[cur]
        popped == [st EXCEPT !.stop_queue = @ \ {cur}]
        marked == [popped EXCEPT !.stop_done = @ \cup {cur}]
        lde    == LatestDepEarliestArr(path, cs)
        xferred == IF HypTransfersFrom(cs[1].deparrmode)
                   THEN HypRelaxTransfers(ft, path, cur, lde,
                                          calculate_nonwalk_label(cs, MAX_COST),
                                          SortedSeq(DOMAIN ft.transfers[cur]), marked)
                   ELSE marked
        valid_trips == IF outbound(path)
                       THEN get_trips_arriving_within_time(ft, cur, lde, PATH_TIME_WINDOW)
                       ELSE get_trips_departing_within_time(ft, cur, lde, PATH_TIME_WINDOW)
        tripped == HypRelaxTrips(ft, path, cur, lde, valid_trips, xferred)
    IN  IF cur \in st.stop_done \/ ~ft.is_transfer[cur] THEN popped
        ELSE [tripped EXCEPT !.label_iterations = @ + 1]

\* the end TAZ: one candidate per access link; deparr_time keeps its last
\* value when the stop has no state
RECURSIVE HypTazScan(_, _, _, _, _, _)
HypTazScan(ft, path, stop_states, stop_ids, deparr_time, taz_state) ==
    IF stop_ids = <<>> THEN taz_state
    ELSE LET stop_id == Head(stop_ids)
             access_time == ft.access_links[EndTaz(path)][stop_id]
             known    == stop_states[stop_id] # <<>>
             new_deparr == IF known
                           THEN EarliestDepLatestArr(path, stop_states[stop_id]) - access_time
                           ELSE deparr_time
             new_cost == IF known THEN calculate_nonwalk_label(stop_states[stop_id], MAX_COST)
                         ELSE MAX_COST
             new_state == HypState(new_deparr,
                                   IF outbound(path) THEN STATE_MODE_ACCESS
                                                     ELSE STATE_MODE_EGRESS,
                                   stop_id, access_time, new_cost, MAX_DATETIME)
         IN  HypTazScan(ft, path, stop_states, Tail(stop_ids), new_deparr,
                        IF taz_state # <<>> \/ new_cost < MAX_COST
                        THEN Append(taz_state, new_state) ELSE taz_state)

HypTazState(ft, path, stop_states) ==
    HypTazScan(ft, path, stop_states, SortedSeq(DOMAIN ft.access_links[EndTaz(path)]),
               0, <<>>)

\* a variant that forgets the filter after a transfer
DoubleWalkAfterTransfer(path, state_mode, last_trip) ==
    IF outbound(path)
    THEN /\ state_mode \in {STATE_MODE_EGRESS, STATE_MODE_TRANSFER}
         /\ last_trip = STATE_MODE_ACCESS
    ELSE /\ state_mode \in {STATE_MODE_ACCESS, STATE_MODE_TRANSFER}
         /\ last_trip = STATE_MODE_EGRESS

\* choose_path_from_hyperpath_states, the candidates at current_stop:
\* "no double walk" and "we cannot depart before we arrive"
DoubleWalk(path, state_mode, last_trip) ==
    IF outbound(path)
    THEN /\ state_mode \in {STATE_MODE_EGRESS, STATE_MODE_TRANSFER}
         /\ last_trip  \in {STATE_MODE_ACCESS, STATE_MODE_TRANSFER}
    ELSE /\ state_mode \in {STATE_MODE_ACCESS, STATE_MODE_TRANSFER}
         /\ last_trip  \in {STATE_MODE_EGRESS, STATE_MODE_TRANSFER}

TimeOk(path, state_deparr, arrdep_time) ==
    IF outbound(path) THEN ~(state_deparr < arrdep_time) ELSE ~(state_deparr > arrdep_time)

Candidates(path, states, last_trip, arrdep_time) ==
    {i \in DOMAIN states :
        /\ ~DoubleWalk(path, states[i].deparrmode, last_trip)
        /\ TimeOk(path, states[i].deparr, arrdep_time)}

\* the candidates choose_state can return: those of non-zero probability
Drawable(states, cands) == {i \in cands : states[i].cost < MAX_COST}

\* ---------------------------------------------------------- the program state
VARIABLES
    FT,                      \* the network: trips, stops, TAZs, capacity, events
    cfg,                     \* the configuration attributes of Assignment
    passengers,              \* FT.passengers: id -> path request, states, status
    bump_wait,               \* Assignment.bump_wait: <<trip, stop>> -> time
    iteration,               \* the loop variable of assign_paths
    pc,                      \* where assign_paths is
    passenger_id,            \* the loop variable of assign_passengers
    num_paths_assigned,      \* the counter of assign_passengers / its result
    num_passengers_arrived,  \* the result of simulate; -1 while unbound
    search,                  \* the locals of the running path search
    sim,                     \* the locals of the running simulate
    raised,                  \* the exception that ended the run, "" if none
    planned,                 \* history: passengers searched for in this iteration
    bumped_obs,              \* history: <<trip, stop, arrival>> of every bump
    capacity_gaps,           \* history: <<paths, arrived>> of every gap computed
    seat_obs                 \* history: <<bumped arrival, boarded arrival>> at one event

vars == << FT, cfg, passengers, bump_wait, iteration, pc, passenger_id,
           num_paths_assigned, num_passengers_arrived, search, sim, raised,
           planned, bumped_obs, capacity_gaps, seat_obs >>

PassengerIds == 1 .. NumPax

NoSearch == [label_iterations |-> 0]

NoSim == [events_simulated |-> 0]

NewPassenger(request) ==
    [path |-> request, states |-> <<>>, simulation_status |-> STATUS_INITIAL,
     experienced_arrival_times |-> <<>>, experienced_destination_arrival |-> -1]

Init ==
    /\ \E net \in Networks, capacity \in 0 .. MaxCap :
          FT = net @@ [capacity |-> Vehicles(net, capacity),
                       events   |-> Events(net.trips)]
    /\ cfg \in [ITERATION_FLAG      : 1 .. MaxIter,
                ASSIGNMENT_TYPE     : {ASSIGNMENT_TYPE_DET_ASGN, ASSIGNMENT_TYPE_STO_ASGN},
                SIMULATION_FLAG     : BOOLEAN,
                CAPACITY_CONSTRAINT : BOOLEAN,
                MAX_HYPERPATH_ASSIGN_ATTEMPTS : {MaxAttempts}]
    /\ \E requests \in [PassengerIds -> FT.requests] :
          passengers = [p \in PassengerIds |-> NewPassenger(requests[p])]
    /\ bump_wait = EmptyFn
    /\ iteration = 1
    /\ pc = "assign"
    /\ passenger_id = 1
    /\ num_paths_assigned = 0
    /\ num_passengers_arrived = -1
    /\ search = NoSearch
    /\ sim = NoSim
    /\ raised = ""
    /\ planned = {}
    /\ bumped_obs = {}
    /\ capacity_gaps = <<>>
    /\ seat_obs = {}

\* ---------------------------------------------------------- assign_passengers
\* a variant that keeps every passenger simulate has seen
KeptOnceSimulated(p) == iteration > 1 /\ passengers[p].simulation_status # STATUS_INITIAL

Kept(p) == iteration > 1 /\ passengers[p].simulation_status = STATUS_ARRIVED

\* "if not passenger.path.goes_somewhere(): continue"
AssignSkip ==
    /\ pc = "assign"
    /\ passenger_id \in PassengerIds
    /\ ~goes_somewhere(passengers[passenger_id].path)
    /\ passenger_id' = passenger_id + 1
    /\ UNCHANGED << FT, cfg, passengers, bump_wait, iteration, pc, num_paths_assigned,
                    num_passengers_arrived, search, sim, raised, planned, bumped_obs,
                    capacity_gaps, seat_obs >>

\* "if iteration > 1 and passenger.simulation_status == STATUS_ARRIVED"
AssignKeep ==
    /\ pc = "assign"
    /\ passenger_id \in PassengerIds
    /\ goes_somewhere(passengers[passenger_id].path)
    /\ Kept(passenger_id)
    /\ num_paths_assigned' = num_paths_assigned + 1
    /\ passenger_id' = passenger_id + 1
    /\ UNCHANGED << FT, cfg, passengers, bump_wait, iteration, pc,
                    num_passengers_arrived, search, sim, raised, planned, bumped_obs,
                    capacity_gaps, seat_obs >>

\* the call of the path finder: its seeds are on the queue
SearchStart ==
    /\ pc = "assign"
    /\ passenger_id \in PassengerIds
    /\ goes_somewhere(passengers[passenger_id].path)
    /\ ~Kept(passenger_id)
    /\ IF cfg.ASSIGNMENT_TYPE = ASSIGNMENT_TYPE_DET_ASGN
       THEN /\ search' = DetSeed(FT, passengers[passenger_id].path)
            /\ pc' = "label"
       ELSE /\ search' = HypSeed(FT, passengers[passenger_id].path)
            /\ pc' = "hyperlabel"
    /\ planned' = planned \cup {passenger_id}
    /\ UNCHANGED << FT, cfg, passengers, bump_wait, iteration, passenger_id,
                    num_paths_assigned, num_passengers_arrived, sim, raised, bumped_obs,
                    capacity_gaps, seat_obs >>

\* a variant that never counts the path
FoundNever(states) == 0

\* the return of the path finder: "if passenger.path.path_found(): += 1"
Found(states) == IF path_found(states) THEN 1 ELSE 0

\* find_trip_based_shortest_path, one pass of its labeling loop
DetLabel ==
    /\ pc = "label"
    /\ search.stop_queue # {}
    /\ search' = DetLabelStep(FT, bump_wait, passengers[passenger_id].path, search)
    /\ UNCHANGED << FT, cfg, passengers, bump_wait, iteration, pc, passenger_id,
                    num_paths_assigned, num_passengers_arrived, sim, raised,
                    planned, bumped_obs, capacity_gaps, seat_obs >>

\* find_trip_based_shortest_path, from the end TAZ to its return
DetFinish ==
    /\ pc = "label"
    /\ search.stop_queue = {}
    /\ LET states == DetPathStates(FT, bump_wait, passengers[passenger_id].path,
                                   passengers[passenger_id].states,
                                   search.stop_states)
       IN  /\ passengers' = [passengers EXCEPT ![passenger_id].states = states]
           /\ num_paths_assigned' = num_paths_assigned + Found(states)
    /\ passenger_id' = passenger_id + 1
    /\ search' = NoSearch
    /\ pc' = "assign"
    /\ UNCHANGED << FT, cfg, bump_wait, iteration, num_passengers_arrived, sim,
                    raised, planned, bumped_obs, capacity_gaps, seat_obs >>

\* ------------------------------------------- find_trip_based_hyperpath, steps
\* one pass of the labeling loop, for any stop the queue may hand out
HyperLabel ==
    /\ pc = "hyperlabel"
    /\ \E cur \in search.stop_queue :
          search' = HypLabelStep(FT, passengers[passenger_id].path, cur, search)
    /\ UNCHANGED << FT, cfg, passengers, bump_wait, iteration, pc, passenger_id,
                    num_paths_assigned, num_passengers_arrived, sim, raised,
                    planned, bumped_obs, capacity_gaps, seat_obs >>

\* the search returns: the passenger's path is what it is now
SearchReturn(states) ==
    /\ passengers' = [passengers EXCEPT ![passenger_id].states = states]
    /\ num_paths_assigned' = num_paths_assigned + Found(states)
    /\ passenger_id' = passenger_id + 1
    /\ search' = NoSearch
    /\ pc' = "assign"

\* the end TAZ; "if len(taz_state) == 0: return label_iterations"
HyperTaz ==
    /\ pc = "hyperlabel"
    /\ search.stop_queue = {}
    /\ LET taz_state == HypTazState(FT, passengers[passenger_id].path, search.stop_states)
       IN  IF taz_state = <<>>
           THEN SearchReturn(passengers[passenger_id].states)
           ELSE /\ search' = search @@ [taz_state |-> taz_state, attempts |-> 0]
                /\ pc' = "choose"
                /\ UNCHANGED << passengers, num_paths_assigned, passenger_id >>
    /\ UNCHANGED << FT, cfg, bump_wait, iteration, num_passengers_arrived, sim,
                    raised, planned, bumped_obs, capacity_gaps, seat_obs >>

\* a variant that allows one more attempt
AttemptsLeftOrLast(attempts) == attempts <= cfg.MAX_HYPERPATH_ASSIGN_ATTEMPTS

\* "while not path_found and attempts < MAX_HYPERPATH_ASSIGN_ATTEMPTS"
AttemptsLeft(attempts) == attempts < cfg.MAX_HYPERPATH_ASSIGN_ATTEMPTS

\* choose_path_from_hyperpath_states up to its loop: the first state is drawn
ChooseStart ==
    /\ pc = "choose"
    /\ AttemptsLeft(search.attempts)
    /\ \E i \in Drawable(search.taz_state, DOMAIN search.taz_state) :
          LET path  == passengers[passenger_id].path
              first == search.taz_state[i]
          IN  /\ passengers' = [passengers EXCEPT ![passenger_id].states =
                                   DictPut(@, EndTaz(path), first)]
              /\ search' = [taz_state    |-> search.taz_state,
                            attempts     |-> search.attempts,
                            stop_states  |-> search.stop_states,
                            stop_queue   |-> search.stop_queue,
                            stop_done    |-> search.stop_done,
                            trips_used   |-> search.trips_used,
                            label_iterations |-> search.label_iterations,
                            taz_idx      |-> i,
                            current_stop |-> first.succpred,
                            arrdep_time  |-> first.deparr + first.linktime * DirFactor(path),
                            last_trip    |-> first.deparrmode]
    /\ pc' = "chain"
    /\ UNCHANGED << FT, cfg, bump_wait, iteration, passenger_id, num_paths_assigned,
                    num_passengers_arrived, sim, raised, planned, bumped_obs,
                    capacity_gaps, seat_obs >>

\* "revise first link possibly": the origin state is the very list that
\* taz_state holds, so the write shows in both
Revised(path, states, next_state, current_stop) ==
    IF outbound(path) /\ Len(states) = 1
    THEN get_scheduled_departure(FT, next_state.deparrmode, current_stop)
         - states[1].linktime
    ELSE states[1].deparr

IsFinal(path, mode) ==
    IF outbound(path) THEN mode = STATE_MODE_EGRESS ELSE mode = STATE_MODE_ACCESS

\* one pass of the loop of choose_path_from_hyperpath_states
ChooseNext ==
    /\ pc = "chain"
    /\ LET path   == passengers[passenger_id].path
           states == passengers[passenger_id].states
           here   == search.stop_states[search.current_stop]
           cands  == Candidates(path, here, search.last_trip, search.arrdep_time)
       IN  IF cands = {}
           THEN \* dead end: "path.reset_states(); continue"
                /\ passengers' = [passengers EXCEPT ![passenger_id].states = <<>>]
                /\ search' = [search EXCEPT !.attempts = @ + 1]
                /\ pc' = "choose"
                /\ UNCHANGED << raised, num_paths_assigned, passenger_id >>
           ELSE IF Drawable(here, cands) = {}
           THEN \* sum_exp is 0.0: the division raises
                /\ raised' = "ZeroDivisionError"
                /\ pc' = "raised"
                /\ UNCHANGED << passengers, search, num_paths_assigned, passenger_id >>
           ELSE \E i \in Drawable(here, cands) :
                LET next_state == here[i]
                    outb       == outbound(path)
                    first_dep  == Revised(path, states, next_state, search.current_stop)
                    revised    == [states EXCEPT ![1].deparr = first_dep]
                    saved      == DictPut(revised, search.current_stop, next_state)
                    final      == IsFinal(path, next_state.deparrmode)
                    delayed    == IF ~outb /\ Len(saved) >= 2
                                  THEN delay_inbound_path_departure(FT, bump_wait, path, saved)
                                  ELSE saved
                IN  IF final
                    THEN /\ SearchReturn(delayed)
                         /\ UNCHANGED raised
                    ELSE /\ passengers' = [passengers EXCEPT ![passenger_id].states = saved]
                         /\ search' = [search EXCEPT
                               !.taz_state[search.taz_idx].deparr = first_dep,
                               !.current_stop = next_state.succpred,
                               !.last_trip    = next_state.deparrmode,
                               !.arrdep_time  =
                                   IF next_state.deparrmode = STATE_MODE_TRANSFER
                                   THEN @ + next_state.linktime * DirFactor(path)
                                   ELSE next_state.arrival]
                         /\ UNCHANGED << raised, pc, num_paths_assigned, passenger_id >>
    /\ UNCHANGED << FT, cfg, bump_wait, iteration, num_passengers_arrived, sim,
                    planned, bumped_obs, capacity_gaps, seat_obs >>

\* "while not path_found and attempts < MAX_HYPERPATH_ASSIGN_ATTEMPTS" is over
ChooseGiveUp ==
    /\ pc = "choose"
    /\ ~AttemptsLeft(search.attempts)
    /\ SearchReturn(passengers[passenger_id].states)
    /\ UNCHANGED << FT, cfg, bump_wait, iteration, num_passengers_arrived, sim,
                    raised, planned, bumped_obs, capacity_gaps, seat_obs >>

\* ------------------------------------------------------- assign_paths, steps
\* assign_passengers returned; "if Assignment.SIMULATION_FLAG == True"
AssignDone ==
    /\ pc = "assign"
    /\ passenger_id \notin PassengerIds
    /\ IF cfg.SIMULATION_FLAG
       THEN /\ sim' = SimReset(FT, passengers) @@ [bump_wait |-> bump_wait]
            /\ pc' = "simulate"
       ELSE /\ pc' = "gap"
            /\ UNCHANGED sim
    /\ UNCHANGED << FT, cfg, passengers, bump_wait, iteration, passenger_id,
                    num_paths_assigned, num_passengers_arrived, search, raised,
                    planned, bumped_obs, capacity_gaps, seat_obs >>

\* the passengers the event turned BUMPED, with the time they reached the stop
NewlyBumped(event, before, after) ==
    { <<event.trip_id, event.stop_id, Last(after.passenger_arrivals[p])>> :
        p \in { q \in DOMAIN after.passenger_id_to_state :
                  /\ after.passenger_id_to_state[q].status = STATUS_BUMPED
                  /\ before.passenger_id_to_state[q].status # STATUS_BUMPED } }

\* the passengers the event let board, with the time they reached the stop
NewlyBoarded(event, before, after) ==
    { Last(after.passenger_arrivals[p]) :
        p \in { q \in DOMAIN after.passenger_id_to_state :
                  /\ after.passenger_id_to_state[q].status = STATUS_ON_BOARD
                  /\ before.passenger_id_to_state[q].status # STATUS_ON_BOARD } }

\* simulate, one event of FT.events
SimulateEvent ==
    /\ pc = "simulate"
    /\ sim.events_simulated < Len(FT.events)
    /\ LET event == FT.events[sim.events_simulated + 1]
           after == SimEvent(FT, cfg, passengers, event, sim)
       IN  /\ sim' = after
           /\ bump_wait' = after.bump_wait
           /\ bumped_obs' = bumped_obs \cup NewlyBumped(event, sim, after)
           /\ seat_obs' = seat_obs \cup
                  { <<b[3], a>> : b \in NewlyBumped(event, sim, after),
                                  a \in NewlyBoarded(event, sim, after) }
    /\ UNCHANGED << FT, cfg, passengers, iteration, pc, passenger_id,
                    num_paths_assigned, num_passengers_arrived, search, raised, planned,
                    capacity_gaps >>

\* simulate, from "Put results into path" to its return
SimulateReturn ==
    /\ pc = "simulate"
    /\ sim.events_simulated = Len(FT.events)
    /\ passengers' = SimResults(passengers, sim)
    /\ num_passengers_arrived' = sim.passengers_arrived
    /\ pc' = "gap"
    /\ UNCHANGED << FT, cfg, bump_wait, iteration, passenger_id, num_paths_assigned,
                    search, sim, raised, planned, bumped_obs, capacity_gaps, seat_obs >>

\* "capacity_gap = 100.0*num_bumped_passengers/num_paths_assigned" and
\* "capacity_gap < 0.001", for num_paths_assigned > 0
GapBelowThreshold(paths, arrived) == 100000 * (paths - arrived) < paths

\* a variant of the break test without the stochastic clause
BreaksOnGapOnly == GapBelowThreshold(num_paths_assigned, num_passengers_arrived)

Breaks ==
    \/ GapBelowThreshold(num_paths_assigned, num_passengers_arrived)
    \/ cfg.ASSIGNMENT_TYPE = ASSIGNMENT_TYPE_STO_ASGN

\* line 137 reads num_passengers_arrived, which simulate alone binds
GapNameError ==
    /\ pc = "gap"
    /\ num_passengers_arrived = -1
    /\ raised' = "NameError"
    /\ pc' = "raised"
    /\ UNCHANGED << FT, cfg, passengers, bump_wait, iteration, passenger_id,
                    num_paths_assigned, num_passengers_arrived, search, sim,
                    planned, bumped_obs, capacity_gaps, seat_obs >>

\* line 138 divides by num_paths_assigned
GapZeroDivision ==
    /\ pc = "gap"
    /\ num_passengers_arrived # -1
    /\ num_paths_assigned = 0
    /\ raised' = "ZeroDivisionError"
    /\ pc' = "raised"
    /\ UNCHANGED << FT, cfg, passengers, bump_wait, iteration, passenger_id,
                    num_paths_assigned, num_passengers_arrived, search, sim,
                    planned, bumped_obs, capacity_gaps, seat_obs >>

\* "if capacity_gap < 0.001 or ASSIGNMENT_TYPE == ASSIGNMENT_TYPE_STO_ASGN: break"
GapBreak ==
    /\ pc = "gap"
    /\ num_passengers_arrived # -1
    /\ num_paths_assigned # 0
    /\ Breaks
    /\ pc' = "done"
    /\ capacity_gaps' = Append(capacity_gaps, <<num_paths_assigned, num_passengers_arrived>>)
    /\ UNCHANGED << FT, cfg, passengers, bump_wait, iteration, passenger_id,
                    num_paths_assigned, num_passengers_arrived, search, sim, raised,
                    planned, bumped_obs, seat_obs >>

\* the for loop goes on with the next iteration
NextIteration ==
    /\ pc = "gap"
    /\ num_passengers_arrived # -1
    /\ num_paths_assigned # 0
    /\ ~Breaks
    /\ iteration < cfg.ITERATION_FLAG
    /\ iteration' = iteration + 1
    /\ passenger_id' = 1
    /\ num_paths_assigned' = 0
    /\ planned' = {}
    /\ pc' = "assign"
    /\ capacity_gaps' = Append(capacity_gaps, <<num_paths_assigned, num_passengers_arrived>>)
    /\ UNCHANGED << FT, cfg, passengers, bump_wait, num_passengers_arrived, search,
                    sim, raised, bumped_obs, seat_obs >>

\* the for loop is exhausted
LastIteration ==
    /\ pc = "gap"
    /\ num_passengers_arrived # -1
    /\ num_paths_assigned # 0
    /\ ~Breaks
    /\ iteration = cfg.ITERATION_FLAG
    /\ pc' = "done"
    /\ capacity_gaps' = Append(capacity_gaps, <<num_paths_assigned, num_passengers_arrived>>)
    /\ UNCHANGED << FT, cfg, passengers, bump_wait, iteration, passenger_id,
                    num_paths_assigned, num_passengers_arrived, search, sim, raised,
                    planned, bumped_obs, seat_obs >>

Next ==
    \/ AssignSkip
    \/ AssignKeep
    \/ SearchStart
    \/ DetLabel
    \/ DetFinish
    \/ HyperLabel
    \/ HyperTaz
    \/ ChooseStart
    \/ ChooseNext
    \/ ChooseGiveUp
    \/ AssignDone
    \/ SimulateEvent
    \/ SimulateReturn
    \/ GapNameError
    \/ GapZeroDivision
    \/ GapBreak
    \/ NextIteration
    \/ LastIteration

Spec == Init /\ [][Next]_vars

\* ================================================================ properties
Simulating == "trip_pax" \in DOMAIN sim

SimStatus(p) ==
    IF p \in DOMAIN sim.passenger_id_to_state
    THEN sim.passenger_id_to_state[p].status ELSE STATUS_INITIAL

\* the iteration's numbers are in: simulate returned, line 137 is next
AfterSimulation == pc = "gap" /\ num_passengers_arrived # -1

\* C1: with CAPACITY_CONSTRAINT on, after every processed event of simulate
\* no trip carries more passengers than its capacity.
C1_CapacityRespected ==
    (Simulating /\ cfg.CAPACITY_CONSTRAINT)
        => \A t \in DOMAIN FT.trips : Len(sim.trip_pax[t]) <= FT.capacity[t]

\* a trip is full with capacity 1 and a passenger has been bumped
C1_Witness ==
    /\ Simulating
    /\ cfg.CAPACITY_CONSTRAINT
    /\ \E t \in DOMAIN FT.trips : FT.capacity[t] = 1 /\ Len(sim.trip_pax[t]) = 1
    /\ \E p \in PassengerIds : SimStatus(p) = STATUS_BUMPED

ObservedAt(key) == { o[3] : o \in { b \in bumped_obs : <<b[1], b[2]>> = key } }

\* C2: bump_wait has a key exactly for the (trip, stop) pairs where somebody
\* was bumped, and its time is the least arrival-at-stop time of the
\* passengers bumped there so far, over all events and iterations of the run.
C2_BumpWaitIsMinimum ==
    /\ \A key \in DOMAIN bump_wait :
          /\ ObservedAt(key) # {}
          /\ bump_wait[key] \in ObservedAt(key)
          /\ \A a \in ObservedAt(key) : bump_wait[key] <= a
    /\ \A b \in bumped_obs : <<b[1], b[2]>> \in DOMAIN bump_wait

\* two bumps with different arrival times at one (trip, stop), the second
\* in a later iteration
C2_Witness ==
    /\ iteration = 2
    /\ \E key \in DOMAIN bump_wait : Cardinality(ObservedAt(key)) >= 2

\* C3: after an iteration in which simulate ran, the arrived passengers are
\* no more than the paths found, and simulate counts each passenger it marks
\* ARRIVED once.
C3_ArrivedAtMostFound ==
    /\ AfterSimulation => num_passengers_arrived <= num_paths_assigned
    /\ Simulating =>
          sim.passengers_arrived =
              Cardinality({p \in PassengerIds : SimStatus(p) = STATUS_ARRIVED})

\* one passenger arrived and another, who had a path, did not
C3_Witness ==
    /\ AfterSimulation
    /\ num_passengers_arrived = 1
    /\ num_paths_assigned = 2

FinalStatus(p) == passengers[p].simulation_status

\* C4: after every simulated iteration the passengers whose final status is
\* BUMPED number paths_found - passengers_arrived: every passenger loaded
\* with a path ends ARRIVED or BUMPED.
C4_MissedAreBumped ==
    AfterSimulation =>
        /\ Cardinality({p \in PassengerIds : FinalStatus(p) = STATUS_BUMPED})
              = num_paths_assigned - num_passengers_arrived
        /\ \A p \in PassengerIds :
              (goes_somewhere(passengers[p].path) /\ path_found(passengers[p].states))
                  => FinalStatus(p) \in {STATUS_ARRIVED, STATUS_BUMPED}

\* ---------------------------------------------------------- saved itineraries
Searching == pc \in {"label", "hyperlabel", "choose", "chain"}

\* the path finder is not at work on passenger p: path.states is what a
\* search saved (or nothing)
Saved(p) == ~(Searching /\ p = passenger_id)

Deterministic == cfg.ASSIGNMENT_TYPE = ASSIGNMENT_TYPE_DET_ASGN

IsWalk(state) == state.deparrmode \in WalkModes

IsTrip(state) == state.deparrmode \notin WalkModes

Reverse(seq) == [i \in 1 .. Len(seq) |-> seq[Len(seq) + 1 - i]]

\* the links in the order the passenger travels them
Travel(p) ==
    IF outbound(passengers[p].path) THEN passengers[p].states
    ELSE Reverse(passengers[p].states)

Pairs(seq) == 1 .. (Len(seq) - 1)

WalkWalk(seq)  == \E i \in Pairs(seq) : IsWalk(seq[i]) /\ IsWalk(seq[i + 1])

TripTrip(seq)  == \E i \in Pairs(seq) : IsTrip(seq[i]) /\ IsTrip(seq[i + 1])

ScheduledRow(trip_id, stop_id) ==
    LET rows == FT.trips[trip_id].stops
    IN  rows[CHOOSE i \in DOMAIN rows : rows[i][STOPS_IDX_STOP_ID] = stop_id]

BoardStop(p, state)  == IF outbound(passengers[p].path) THEN state.stop ELSE state.succpred

AlightStop(p, state) == IF outbound(passengers[p].path) THEN state.succpred ELSE state.stop

ScheduledAlight(p, state) ==
    ScheduledRow(state.deparrmode, AlightStop(p, state))[STOPS_IDX_ARRIVAL_TIME]

ScheduledBoard(p, state) ==
    ScheduledRow(state.deparrmode, BoardStop(p, state))[STOPS_IDX_DEPARTURE_TIME]

\* trip leg i is followed by trip leg j, with walk minutes between them
Connects(p, seq, i, j, walk) ==
    ScheduledAlight(p, seq[i]) + walk <= ScheduledBoard(p, seq[j])

FeasibleTransfers(p) ==
    LET seq == Travel(p)
    IN  /\ \A i \in Pairs(seq) :
              (IsTrip(seq[i]) /\ IsTrip(seq[i + 1])) => Connects(p, seq, i, i + 1, 0)
        /\ \A i \in 1 .. (Len(seq) - 2) :
              (/\ IsTrip(seq[i])
               /\ seq[i + 1].deparrmode = STATE_MODE_TRANSFER
               /\ IsTrip(seq[i + 2]))
                  => Connects(p, seq, i, i + 2, seq[i + 1].linktime)

\* C6: in every saved itinerary, deterministic or sampled, a trip leg A
\* followed by a trip leg B has scheduled alight(A) + transfer walk time
\* (zero at the same stop) <= scheduled departure(B).
C6_TransfersFeasible ==
    \A p \in PassengerIds : Saved(p) => FeasibleTransfers(p)

\* the same for the itineraries of find_trip_based_shortest_path alone
C6_DeterministicFeasible ==
    Deterministic => \A p \in PassengerIds : Saved(p) => FeasibleTransfers(p)

AdjacentTo(seq, mode_a, mode_b) ==
    \E i \in Pairs(seq) :
        \/ seq[i].deparrmode = mode_a /\ seq[i + 1].deparrmode = mode_b
        \/ seq[i].deparrmode = mode_b /\ seq[i + 1].deparrmode = mode_a

\* C7: in an itinerary saved by find_trip_based_shortest_path the links next
\* to the access link and next to the egress link are trip links: no
\* TRANSFER beside ACCESS or EGRESS, and never walk links only.
C7_TripsAtBothEnds ==
    Deterministic =>
        \A p \in PassengerIds :
            (Saved(p) /\ path_found(passengers[p].states)) =>
                LET seq == Travel(p)
                IN  /\ Len(seq) >= 3
                    /\ seq[1].deparrmode = STATE_MODE_ACCESS
                    /\ seq[Len(seq)].deparrmode = STATE_MODE_EGRESS
                    /\ IsTrip(seq[2])
                    /\ IsTrip(seq[Len(seq) - 1])
                    /\ ~AdjacentTo(seq, STATE_MODE_TRANSFER, STATE_MODE_ACCESS)
                    /\ ~AdjacentTo(seq, STATE_MODE_TRANSFER, STATE_MODE_EGRESS)
                    /\ \E i \in DOMAIN seq : IsTrip(seq[i])

\* a deterministic itinerary with a transfer walk between two trips
C7_Witness ==
    /\ Deterministic
    /\ \E p \in PassengerIds :
          /\ Saved(p)
          /\ path_found(passengers[p].states)
          /\ \E i \in DOMAIN passengers[p].states :
                passengers[p].states[i].deparrmode = STATE_MODE_TRANSFER

\* ---------------------------------------------------------------- the loop
Stopped == pc \in {"done", "raised"}

GapComputed(i) == i \in DOMAIN capacity_gaps

GapSmall(i) == GapBelowThreshold(capacity_gaps[i][1], capacity_gaps[i][2])

\* C8: assign_paths runs at most ITERATION_FLAG iterations; in deterministic
\* mode iteration i+1 starts only after iteration i ended with a capacity
\* gap >= 0.001, so a run that stops before iteration ITERATION_FLAG had a
\* capacity gap < 0.001 in its last iteration.
C8_StopsEarlyOnlyOnSmallGap ==
    /\ iteration <= cfg.ITERATION_FLAG
    /\ Deterministic =>
          \A i \in 1 .. (iteration - 1) : GapComputed(i) /\ ~GapSmall(i)
    /\ (Deterministic /\ Stopped /\ iteration < cfg.ITERATION_FLAG) =>
          (GapComputed(iteration) /\ GapSmall(iteration))

\* C9: in stochastic mode assign_paths runs one iteration whatever
\* ITERATION_FLAG and the capacity gap are: a second iteration never starts
\* and at most one capacity gap is computed.
C9_StochasticRunsOnce ==
    ~Deterministic => (iteration = 1 /\ Len(capacity_gaps) <= 1)

\* a stochastic run with ITERATION_FLAG = 2 ended after its first iteration
\* although a passenger with a path did not arrive
C9_Witness ==
    /\ ~Deterministic
    /\ cfg.ITERATION_FLAG = 2
    /\ pc = "done"
    /\ GapComputed(1)
    /\ ~GapSmall(1)

Arrived(p) == passengers[p].simulation_status = STATUS_ARRIVED

Assigning == pc = "assign" \/ Searching

AssignmentOver == pc = "assign" /\ passenger_id \notin PassengerIds

\* C10: in an iteration after the first, assign_passengers does not search
\* for a passenger whose status is ARRIVED: the states of that passenger stay
\* as they are and the passenger counts once in the paths found; every other
\* passenger that goes somewhere is searched for again.
C10_ArrivedKeepTheirPath ==
    /\ []((iteration > 1 /\ Assigning) =>
             \A p \in PassengerIds : Arrived(p) => p \notin planned)
    /\ []((iteration > 1 /\ AssignmentOver) =>
             /\ planned = {p \in PassengerIds :
                              goes_somewhere(passengers[p].path) /\ ~Arrived(p)}
             /\ num_paths_assigned =
                  Cardinality({p \in PassengerIds : Arrived(p)})
                  + Cardinality({p \in planned : path_found(passengers[p].states)}))
    /\ [][(iteration > 1 /\ Assigning) =>
             \A p \in PassengerIds :
                 Arrived(p) => passengers'[p].states = passengers[p].states]_vars

\* the second assignment pass is over: one passenger kept an itinerary, the
\* other was searched for again
C10_Witness ==
    /\ iteration = 2
    /\ AssignmentOver
    /\ \E p \in PassengerIds : Arrived(p) /\ path_found(passengers[p].states)
    /\ planned # {}

\* ------------------------------------------------------------------- C11
\* C11: a search that finds no path never aborts the run: with the
\* simulation on, an iteration in which passengers were searched for raises
\* nothing, whatever the searches find, no path for anyone included.
C11_NoPathNeverAborts ==
    (cfg.SIMULATION_FLAG /\ planned # {}) => raised = ""

\* ------------------------------------------------------------------- C12
\* C12: with SIMULATION_FLAG off the run is a one-shot assignment: simulate
\* is not invoked, bump_wait stays empty and nothing is raised.
C12_AssignmentOnlyCompletes ==
    ~cfg.SIMULATION_FLAG =>
        /\ ~Simulating
        /\ bump_wait = EmptyFn
        /\ raised = ""

\* the part of C12 that the code keeps: no simulation, no bump_wait entry
C12_NoSimulationNoBumpWait ==
    ~cfg.SIMULATION_FLAG => ~Simulating /\ bump_wait = EmptyFn

\* ------------------------------------------------------------------- C13
\* C13: with CAPACITY_CONSTRAINT on, the seats of a departure go to the
\* passengers in the order in which they reached the stop: nobody is bumped
\* at an event at which a passenger who reached the stop later boards.
C13_SeatsByArrivalOrder ==
    cfg.CAPACITY_CONSTRAINT => \A o \in seat_obs : ~(o[1] < o[2])

\* ------------------------------------------------------------------- C14
\* the first iteration of a deterministic run on the one-trip network in which
\* p alone travels, wanting to arrive by 08:00
ScenarioSingleTrip(p) ==
    /\ FT.trips = NetOne.trips
    /\ Deterministic
    /\ passengers[p].path = [origin_taz_id |-> 11, destination_taz_id |-> 12,
                              direction |-> DIR_OUTBOUND, preferred_time |-> Clock(8, 0)]
    /\ \A q \in PassengerIds \ {p} : ~goes_somewhere(passengers[q].path)

\* p's search of this iteration has returned
Searched(p) == p \in planned /\ Saved(p)

\* access -> trip 1 -> egress, with the label and the time of the origin state
PlannedSingleTrip(p, label, deparr) ==
    LET states == passengers[p].states
    IN  /\ Len(states) = 3
        /\ states[1].deparrmode = STATE_MODE_ACCESS
        /\ states[2].deparrmode = 1
        /\ states[3].deparrmode = STATE_MODE_EGRESS
        /\ states[1].label  = label
        /\ states[1].deparr = deparr

\* C14: the single outbound passenger of the one-trip network gets the
\* itinerary access -> trip -> egress with origin label 25 minutes and origin
\* departure 07:35, and the simulation marks the passenger ARRIVED with
\* destination arrival 08:00.
C14_SingleTripArrives ==
    \A p \in PassengerIds :
        (ScenarioSingleTrip(p) /\ iteration = 1 /\ Searched(p)) =>
            /\ PlannedSingleTrip(p, 25 * Minute, Clock(7, 35))
            /\ AfterSimulation =>
                  /\ FinalStatus(p) = STATUS_ARRIVED
                  /\ passengers[p].experienced_destination_arrival = Clock(8, 0)

\* the part of C14 about the search alone
C14_SingleTripPlanned ==
    \A p \in PassengerIds :
        (ScenarioSingleTrip(p) /\ iteration = 1 /\ Searched(p)) =>
            PlannedSingleTrip(p, 25 * Minute, Clock(7, 35))

\* ------------------------------------------------------------------- C15
\* the single-trip scenario with a vehicle without seats, capacities
\* enforced, simulated, and a second iteration allowed
ScenarioNoSeat(p) ==
    /\ ScenarioSingleTrip(p)
    /\ FT.capacity[1] = 0
    /\ cfg.CAPACITY_CONSTRAINT
    /\ cfg.SIMULATION_FLAG
    /\ cfg.ITERATION_FLAG >= 2

\* simulate of iteration i has returned and line 137 is next
Simulated(i) == iteration = i /\ AfterSimulation

\* the outcome of an iteration in which p was bumped at stop X by trip 1
BumpedAt(p, time) ==
    /\ FinalStatus(p) = STATUS_BUMPED
    /\ bump_wait = (<<1, 1>> :> time)
    /\ num_paths_assigned = 1
    /\ num_passengers_arrived = 0

\* C15 as claimed: iteration 1 bumps the passenger with bump_wait[(trip, X)] =
\* 07:35 and a capacity gap of 100, and the search of iteration 2 finds no
\* path for the passenger.
C15_BumpedFindsNoPath ==
    \A p \in PassengerIds : ScenarioNoSeat(p) =>
        /\ Simulated(1) => BumpedAt(p, Clock(7, 35))
        /\ (iteration = 2 /\ Searched(p)) => passengers[p].states = <<>>

\* C15 amended: iteration 1 bumps the passenger with bump_wait[(trip, X)] =
\* 07:40, the time the passenger reached X, and a capacity gap of 100; the
\* search of iteration 2 assigns the same trip again with the access link
\* moved BUMP_BUFFER ahead of the bump time (origin departure 07:30, label 30
\* minutes), and the passenger is bumped again, now with bump_wait = 07:35.
C15_BumpedLeavesEarlier ==
    \A p \in PassengerIds : ScenarioNoSeat(p) =>
        /\ Simulated(1) => BumpedAt(p, Clock(7, 40))
        /\ (iteration = 2 /\ Searched(p)) =>
              PlannedSingleTrip(p, 30 * Minute, Clock(7, 30))
        /\ Simulated(2) => BumpedAt(p, Clock(7, 35))

\* the second iteration of the scenario has been simulated
C15_Witness ==
    \E p \in PassengerIds :
        /\ ScenarioNoSeat(p)
        /\ Searched(p)
        /\ Simulated(2)
        /\ capacity_gaps = << <<1, 0>> >>

\* ------------------------------------------------------------------- C16
\* an inbound itinerary of p found in iteration 1, when bump_wait is empty
InboundFound(p) ==
    /\ iteration = 1
    /\ Searched(p)
    /\ ~outbound(passengers[p].path)
    /\ path_found(passengers[p].states)

\* inbound states end with the first trip and, last, the access link
FirstTripState(p) == passengers[p].states[Len(passengers[p].states) - 1]

AccessState(p) == Last(passengers[p].states)

\* the time at which the itinerary has p at the first boarding stop
ReachesBoardStop(p) == AccessState(p).deparr

ScheduledFirstBoarding(p) ==
    get_scheduled_departure(FT, FirstTripState(p).deparrmode, AccessState(p).stop)

\* the dwell of the first trip at the stop where p leaves it
DwellAtAlight(p) ==
    LET row == ScheduledRow(FirstTripState(p).deparrmode, FirstTripState(p).stop)
    IN  row[STOPS_IDX_DEPARTURE_TIME] - row[STOPS_IDX_ARRIVAL_TIME]

\* C16: an inbound itinerary found with empty bump_wait has the passenger
\* reach the first boarding stop exactly at the scheduled departure of the
\* first trip there (leaving the origin an access walk earlier), whatever
\* the dwell of that trip at the alight stop.
C16_InboundJustInTime ==
    \A p \in PassengerIds :
        InboundFound(p) => ReachesBoardStop(p) = ScheduledFirstBoarding(p)

\* what the code gives: the passenger is early by the dwell at the alight stop
C16_InboundEarlyByDwell ==
    \A p \in PassengerIds :
        InboundFound(p) =>
            ReachesBoardStop(p) = ScheduledFirstBoarding(p) - DwellAtAlight(p)

\* ------------------------------------------------------------------- C17
\* the labeling pass of this step pops and processes stop cur
Processes(cur) ==
    /\ pc \in {"label", "hyperlabel"}
    /\ pc' = pc
    /\ cur \notin search.stop_done
    /\ cur \in search'.stop_done

\* every state the popped stop has was reached by a walk link
ReachedByWalk(cur) ==
    IF pc = "label"
    THEN search.stop_states[cur].deparrmode \in WalkModes
    ELSE \A i \in DOMAIN search.stop_states[cur] :
             search.stop_states[cur][i].deparrmode \in WalkModes

\* this step leaves at stop x a new TRANSFER state that comes from cur
TransferCreated(cur, x) ==
    IF pc = "label"
    THEN /\ x \in DOMAIN search'.stop_states
         /\ search'.stop_states[x].deparrmode = STATE_MODE_TRANSFER
         /\ search'.stop_states[x].succpred = cur
         /\ (x \in DOMAIN search.stop_states
                => search.stop_states[x] # search'.stop_states[x])
    ELSE \E i \in DOMAIN search'.stop_states[x] :
             /\ i > Len(search.stop_states[x])
             /\ search'.stop_states[x][i].deparrmode = STATE_MODE_TRANSFER
             /\ search'.stop_states[x][i].succpred = cur

NoWalkToWalk ==
    \A cur \in Stops :
        (Processes(cur) /\ ReachedByWalk(cur))
            => \A x \in Stops : ~TransferCreated(cur, x)

\* C17: in neither search does the pass that pops a stop reached by a walk
\* link (TRANSFER, ACCESS or EGRESS) create a TRANSFER state at a transfer
\* neighbour of that stop.
C17_NoTransferOutOfWalk == [][NoWalkToWalk]_vars

\* the same for find_trip_based_shortest_path alone
C17_DetNoTransferOutOfWalk == [][pc = "label" => NoWalkToWalk]_vars

\* the hyperpath never relaxes a transfer out of a stop whose first state is
\* an access or egress state
C17_HypNoTransferOutOfAccess ==
    [][\A cur \in Stops :
          (Processes(cur) /\ pc = "hyperlabel"
             /\ search.stop_states[cur][1].deparrmode
                    \in {STATE_MODE_ACCESS, STATE_MODE_EGRESS})
            => \A x \in Stops : ~TransferCreated(cur, x)]_vars

\* ------------------------------------------------------------------- C18
\* the time at which the itinerary has p at the boarding stop of leg i of
\* seq (the links of p in travel order): the end of the walk link before
\* it, or the scheduled arrival of the trip before it
PlannedArrival(p, seq, i) ==
    IF IsTrip(seq[i - 1]) THEN ScheduledAlight(p, seq[i - 1])
    ELSE IF outbound(passengers[p].path)
    THEN seq[i - 1].deparr + seq[i - 1].linktime
    ELSE seq[i - 1].deparr

\* the trip legs of p whose (trip, boarding stop) has a bump_wait entry
QueuedBoardings(p) ==
    LET seq == Travel(p)
    IN  {i \in 2 .. Len(seq) :
            /\ IsTrip(seq[i])
            /\ <<seq[i].deparrmode, BoardStop(p, seq[i])>> \in DOMAIN bump_wait}

\* p has an itinerary of the deterministic search of this iteration, and
\* bump_wait is still what the search read
PlannedNow(p) ==
    /\ Deterministic
    /\ Assigning
    /\ Searched(p)
    /\ path_found(passengers[p].states)

\* C18: in an itinerary of the deterministic search, outbound or inbound,
\* every boarding of a trip T at a stop s with bump_wait[(T, s)] defined
\* has the passenger at s strictly before bump_wait[(T, s)].
C18_AheadOfTheBumped ==
    \A p \in PassengerIds :
        PlannedNow(p) =>
            \A i \in QueuedBoardings(p) :
                LET seq == Travel(p)
                IN  PlannedArrival(p, seq, i)
                        < bump_wait[<<seq[i].deparrmode, BoardStop(p, seq[i])>>]

\* an itinerary that changes onto a trip others were bumped from
C18_Witness ==
    \E p \in PassengerIds :
        PlannedNow(p) /\ iteration = 2 /\ (\E i \in QueuedBoardings(p) : i > 2)

\* ------------------------------------------------------------------- C19
\* the calls of choose_path_from_hyperpath_states made so far for the
\* passenger at hand: the failed ones and the one under way
ChooseCalls == search.attempts + (IF pc = "chain" THEN 1 ELSE 0)

Sampling == pc \in {"choose", "chain"}

\* the loop of find_trip_based_hyperpath is left with every attempt failed
GivesUp ==
    /\ pc = "choose"
    /\ pc' = "assign"
    /\ search.attempts > 0

\* C19: for one passenger choose_path_from_hyperpath_states is called at
\* most MAX_HYPERPATH_ASSIGN_ATTEMPTS times; a further call is made only
\* when every call before has failed (the path was reset); and when all
\* attempts have failed the search returns with a path of no states and
\* nothing raised.
C19_BoundedAttempts ==
    /\ [](Sampling => ChooseCalls <= cfg.MAX_HYPERPATH_ASSIGN_ATTEMPTS)
    /\ []((pc = "choose" /\ search.attempts > 0)
            => passengers[passenger_id].states = <<>>)
    /\ [][GivesUp => /\ search.attempts = cfg.MAX_HYPERPATH_ASSIGN_ATTEMPTS
                     /\ passengers'[passenger_id].states = <<>>
                     /\ raised' = ""]_vars

\* every attempt allowed has been made and has failed: the loop is over
C19_Witness ==
    /\ pc = "choose"
    /\ ChooseCalls = cfg.MAX_HYPERPATH_ASSIGN_ATTEMPTS
    /\ passengers[passenger_id].states = <<>>

\* ------------------------------------------------------------------- C20
\* what a call of the deterministic search on the inputs of now would leave
\* in the path of p, were the path empty or as the last search left it
SearchAgain(p, path_states) ==
    find_trip_based_shortest_path(FT, bump_wait, passengers[p].path, path_states)

\* p was searched for in this iteration and bump_wait is what the search read
DetSearchedNow(p) ==
    /\ Deterministic
    /\ Assigning
    /\ Searched(p)

MirrorRow(row, pivot) ==
    << row[STOPS_IDX_STOP_ID],
       2 * pivot - row[STOPS_IDX_DEPARTURE_TIME],
       2 * pivot - row[STOPS_IDX_ARRIVAL_TIME] >>

MirrorSchedule(ft, pivot) ==
    [ft EXCEPT !.trips =
        [t \in DOMAIN ft.trips |->
            [stops |-> Reverse([i \in DOMAIN ft.trips[t].stops |->
                                   MirrorRow(ft.trips[t].stops[i], pivot)])]]]

\* arrive at D by t, turned into: leave D at t (for O)
MirrorRequest(path) ==
    [origin_taz_id      |-> path.destination_taz_id,
     destination_taz_id |-> path.origin_taz_id,
     direction          |-> DIR_INBOUND,
     preferred_time     |-> path.preferred_time]

\* the states of the inbound search for the mirrored request of p
MirrorStates(p) ==
    find_trip_based_shortest_path(
        MirrorSchedule(FT, passengers[p].path.preferred_time), EmptyFn,
        MirrorRequest(passengers[p].path), <<>>)

\* the label of the end TAZ, the first state put into the path
FinalLabel(states) == states[1].label

Near(a, b) == a - b <= 1 /\ b - a <= 1

\* an outbound request searched for by the deterministic search in iteration
\* 1, when bump_wait is empty
OutboundSearched(p) ==
    /\ Deterministic
    /\ iteration = 1
    /\ Searched(p)
    /\ outbound(passengers[p].path)

\* C21: with empty bump_wait the deterministic search finds a path for an
\* outbound request (O, D, arrive at t) exactly when it finds one for the
\* inbound request (D, O, depart at t) on the time-reversed schedule, and
\* the final labels of the two differ by at most one time unit.
C21_MirrorLabel ==
    \A p \in PassengerIds :
        OutboundSearched(p) =>
            /\ path_found(passengers[p].states) <=> path_found(MirrorStates(p))
            /\ path_found(passengers[p].states)
                  => Near(FinalLabel(passengers[p].states), FinalLabel(MirrorStates(p)))

\* an outbound itinerary with a change of vehicle, mirrored
C21_Witness ==
    \E p \in PassengerIds :
        /\ OutboundSearched(p)
        /\ Len(passengers[p].states) >= 4
        /\ path_found(MirrorStates(p))

\* ------------------------------------------------------------------- C22
\* simulate loaded p with an itinerary
Loaded(p) ==
    /\ goes_somewhere(passengers[p].path)
    /\ path_found(passengers[p].states)

\* the itinerary of p cannot be served: it has p at a boarding stop only
\* after the trip to board has left it
Unservable(p) == Loaded(p) /\ ~FeasibleTransfers(p)

\* C22: a passenger whose itinerary cannot be served, reaching a boarding
\* stop only after the DEPARTURE event of the trip there, ends the event
\* pass with status BUMPED.
C22_UnservedAreBumped ==
    AfterSimulation =>
        \A p \in PassengerIds : Unservable(p) => FinalStatus(p) = STATUS_BUMPED

\* what the code does with such a passenger when a seat was free before:
\* it is left waiting at the stop (or walking, when no event follows)
C22_UnservedAreLeftBehind ==
    AfterSimulation =>
        \A p \in PassengerIds :
            Unservable(p) =>
                FinalStatus(p) \in {STATUS_WAITING, STATUS_WALKING, STATUS_BUMPED}

\* ============================================================== choose_state
\* choose_state on its own: the list of (cumulative probability, state) and
\* the random number are drawn, one step makes the call.  search holds the
\* locals of the call; a state is named by its place in the list.
RECURSIVE SumTo(_, _)
SumTo(weights, i) == IF i = 0 THEN 0 ELSE SumTo(weights, i - 1) + weights[i]

\* "stop_cum_prob[idx][0] = stop_cum_prob[idx-1][0] + prob"
CumProb(weights) == [i \in DOMAIN weights |-> <<SumTo(weights, i), i>>]

\* "prob = int(1000 * exp(-cost) / sum_exp)" for costs that are 0 or MAX_COST:
\* exp(-0) = 1.0 and exp(-MAX_COST) = 0.0
StopProbs(costs) ==
    LET sum_exp == Cardinality({j \in DOMAIN costs : costs[j] = 0})
    IN  [i \in DOMAIN costs |-> IF costs[i] = 0 THEN 1000 \div sum_exp ELSE 0]

WeightLists ==
    UNION {[1 .. n -> 0 .. MaxWeight] : n \in 1 .. MaxStates}

CostLists ==
    {c \in UNION {[1 .. n -> {0, MAX_COST}] : n \in 1 .. MaxStates} :
        \E i \in DOMAIN c : c[i] = 0}

RECURSIVE ChooseScan(_, _)
ChooseScan(prob_state_list, random_num) ==
    IF prob_state_list = <<>> THEN 0   \* raise Exception("This shouldn't happen")
    ELSE IF random_num < Head(prob_state_list)[1] THEN Head(prob_state_list)[2]
    ELSE ChooseScan(Tail(prob_state_list), random_num)

RECURSIVE ChooseScanInclusive(_, _)
ChooseScanInclusive(prob_state_list, random_num) ==
    IF prob_state_list = <<>> THEN 0
    ELSE IF random_num <= Head(prob_state_list)[1] THEN Head(prob_state_list)[2]
    ELSE ChooseScanInclusive(Tail(prob_state_list), random_num)

\* a variant that takes the first bucket that reaches the draw
ChooseStateInclusive(prob_state_list, random_num) ==
    ChooseScanInclusive(prob_state_list,
                        random_num % Last(prob_state_list)[1])

\* Assignment.choose_state, for the number test_rand() returned
choose_state(prob_state_list, random_num) ==
    ChooseScan(prob_state_list, random_num % Last(prob_state_list)[1])

InitChoose ==
    /\ FT = NetOne @@ [capacity |-> Vehicles(NetOne, 0),
                       events   |-> Events(NetOne.trips)]
    /\ cfg = [ITERATION_FLAG      |-> 1,
              ASSIGNMENT_TYPE     |-> ASSIGNMENT_TYPE_STO_ASGN,
              SIMULATION_FLAG     |-> FALSE,
              CAPACITY_CONSTRAINT |-> FALSE,
              MAX_HYPERPATH_ASSIGN_ATTEMPTS |-> MaxAttempts]
    /\ passengers = [p \in PassengerIds |->
                        NewPassenger(CHOOSE r \in NetOne.requests :
                                        outbound(r) /\ goes_somewhere(r))]
    /\ bump_wait = EmptyFn
    /\ iteration = 1
    /\ pc = "sampler"
    /\ passenger_id = 1
    /\ num_paths_assigned = 0
    /\ num_passengers_arrived = -1
    /\ sim = NoSim
    /\ raised = ""
    /\ planned = {}
    /\ bumped_obs = {}
    /\ capacity_gaps = <<>>
    /\ seat_obs = {}
    /\ \E random_num \in 0 .. MaxDraw :
          \/ \E weights \in WeightLists :
                search = [costs |-> <<>>, weights |-> weights,
                          prob_state_list |-> CumProb(weights),
                          random_num |-> random_num, chosen |-> 0]
          \/ \E costs \in CostLists :
                search = [costs |-> costs, weights |-> StopProbs(costs),
                          prob_state_list |-> CumProb(StopProbs(costs)),
                          random_num |-> random_num, chosen |-> 0]

\* the call; "random_num % prob_state_list[-1][0]" raises when the last
\* cumulative probability is 0
DrawState ==
    /\ pc = "sampler"
    /\ IF Last(search.prob_state_list)[1] = 0
       THEN /\ raised' = "ZeroDivisionError"
            /\ pc' = "raised"
            /\ UNCHANGED search
       ELSE /\ search' = [search EXCEPT !.chosen =
                              choose_state(search.prob_state_list, search.random_num)]
            /\ pc' = "sampled"
            /\ UNCHANGED raised
    /\ UNCHANGED << FT, cfg, passengers, bump_wait, iteration, passenger_id,
                    num_paths_assigned, num_passengers_arrived, sim, planned,
                    bumped_obs, capacity_gaps, seat_obs >>

NextChoose == DrawState

SpecChoose == InitChoose /\ [][NextChoose]_vars

\* ------------------------------------------------------------------- C23
InSampler == pc \in {"sampler", "sampled"}

Total == Last(search.prob_state_list)[1]

\* the first bucket whose cumulative weight exceeds the residue
FirstBucket(residue) ==
    CHOOSE i \in DOMAIN search.prob_state_list :
        /\ residue < search.prob_state_list[i][1]
        /\ \A j \in 1 .. (i - 1) : ~(residue < search.prob_state_list[j][1])

\* the residues for which choose_state returns state i
Selecting(i) ==
    {residue \in 0 .. (Total - 1) :
        choose_state(search.prob_state_list, residue) = i}

\* exactly two alternatives of one cost, the others of no weight
TwoEqual == Cardinality({i \in DOMAIN search.costs : search.costs[i] = 0}) = 2

\* C23: with cumulative weights c_1 <= ... <= c_n, c_n > 0, and a draw r,
\* choose_state returns the state of the first bucket i with
\* (r mod c_n) < c_i; a state of weight w is selected by exactly w of the
\* c_n residues, a state of weight 0 by none, and each of two equal-cost
\* alternatives at a stop by half of the residues.
C23_FirstBucket ==
    (InSampler /\ Total > 0) =>
        /\ pc = "sampled" =>
              /\ search.chosen = FirstBucket(search.random_num % Total)
              /\ search.weights[search.chosen] > 0
        /\ \A i \in DOMAIN search.weights :
              Cardinality(Selecting(i)) = search.weights[i]
        /\ TwoEqual =>
              \A i \in DOMAIN search.costs :
                  search.costs[i] = 0 => 2 * Cardinality(Selecting(i)) = Total

\* a draw that wraps around the total and skips a bucket of weight 0
C23_Witness ==
    /\ pc = "sampled"
    /\ search.random_num >= Total
    /\ search.chosen > 1
    /\ \E j \in 1 .. (search.chosen - 1) : search.weights[j] = 0

\* ----------------------------------------------------------------------
\* Seats vacated at a stop.

\* the step handles the DEPARTURE event of a trip at a stop
DepartureStep ==
    /\ Simulating
    /\ pc = "simulate"
    /\ pc' = "simulate"
    /\ sim.events_simulated < Len(FT.events)
    /\ sim'.events_simulated = sim.events_simulated + 1
    /\ FT.events[sim.events_simulated + 1].event_type = EVENT_TYPE_DEPARTURE

DepartureEvent == FT.events[sim.events_simulated + 1]

\* the trip's ARRIVAL event at the stop, handled before
IsArrivalBefore(m) ==
    /\ FT.events[m].event_type = EVENT_TYPE_ARRIVAL
    /\ FT.events[m].trip_id = DepartureEvent.trip_id
    /\ FT.events[m].stop_id = DepartureEvent.stop_id
    /\ \A n \in (m + 1) .. sim.events_simulated :
          FT.events[n].trip_id # DepartureEvent.trip_id

ArrivalPrecedes == \E m \in 1 .. sim.events_simulated : IsArrivalBefore(m)

ArrivalEvent == FT.events[CHOOSE m \in 1 .. sim.events_simulated : IsArrivalBefore(m)]

\* the passengers riding the trip, by their status and itinerary state
Riding(trip_id) ==
    {p \in DOMAIN sim.passenger_id_to_state :
        /\ sim.passenger_id_to_state[p].status = STATUS_ON_BOARD
        /\ passengers[p].states[sim.passenger_id_to_state[p].path_idx].deparrmode = trip_id}

\* the passengers who left the trip at its ARRIVAL event, by their alight
\* times and itinerary
Alighted ==
    {p \in DOMAIN sim.passenger_id_to_state :
        /\ \E i \in DOMAIN sim.passenger_alights[p] :
              sim.passenger_alights[p][i] = ArrivalEvent.event_time
        /\ \E i \in DOMAIN passengers[p].states :
              /\ passengers[p].states[i].deparrmode = ArrivalEvent.trip_id
              /\ AlightStop(p, passengers[p].states[i]) = ArrivalEvent.stop_id}

FullOnArrival ==
    Cardinality(Riding(ArrivalEvent.trip_id)) + Cardinality(Alighted)
        = FT.capacity[ArrivalEvent.trip_id]

TurnedTo(status) ==
    {p \in DOMAIN sim.passenger_id_to_state :
        /\ sim.passenger_id_to_state[p].status # status
        /\ sim'.passenger_id_to_state[p].status = status}

Least(a, b) == IF a <= b THEN a ELSE b

\* C24: when the ARRIVAL event of a trip at a stop precedes its DEPARTURE
\* event there and the trip was full on arrival, the k seats vacated by the
\* passengers who alighted are free at the departure: of the passengers
\* waiting for the trip at the stop, k board (all of them when fewer than k
\* wait) and only the others are bumped.
C24_VacatedSeatsAreFree ==
    [][(/\ DepartureStep
        /\ cfg.CAPACITY_CONSTRAINT
        /\ ArrivalPrecedes
        /\ FullOnArrival)
       => LET k       == Cardinality(Alighted)
              boarded == TurnedTo(STATUS_ON_BOARD)
              bumped  == TurnedTo(STATUS_BUMPED)
          IN  /\ Cardinality(boarded) = Least(k, Cardinality(boarded \cup bumped))
              /\ Cardinality(boarded) < k => bumped = {}]_vars

\* the DEPARTURE event just handled let a passenger board a trip that was
\* full when it arrived at the stop and that a passenger left there
C24_Witness ==
    /\ Simulating
    /\ pc = "simulate"
    /\ cfg.CAPACITY_CONSTRAINT
    /\ sim.events_simulated > 1
    /\ LET event == FT.events[sim.events_simulated]
           t     == event.trip_id
       IN  /\ event.event_type = EVENT_TYPE_DEPARTURE
           /\ \E m \in 1 .. (sim.events_simulated - 1) :
                 /\ FT.events[m].event_type = EVENT_TYPE_ARRIVAL
                 /\ FT.events[m].trip_id = t
                 /\ FT.events[m].stop_id = event.stop_id
           /\ Last(sim.trip_alights[t]) >= 1
           /\ Last(sim.trip_boards[t]) >= 1
           /\ Len(sim.trip_pax[t]) - Last(sim.trip_boards[t]) + Last(sim.trip_alights[t])
                 = FT.capacity[t]

\* ----------------------------------------------------------------------
\* The egress walk after the last alighting.

\* every event of the stream has been handled, the results are not yet
\* written to the passengers
PassOver == Simulating /\ pc = "simulate" /\ sim.events_simulated = Len(FT.events)

TripLegs(p) == {i \in DOMAIN passengers[p].states : IsTrip(passengers[p].states[i])}

\* p has alighted from the last trip of its itinerary
AlightedFromLastTrip(p) ==
    /\ p \in DOMAIN sim.passenger_id_to_state
    /\ sim.passenger_alights[p] # <<>>
    /\ Len(sim.passenger_alights[p]) = Cardinality(TripLegs(p))

EgressState(p) == Last(Travel(p))

ArrivesAfterEgress(p) ==
    /\ p \in DOMAIN sim.passenger_dest_arrivals
    /\ sim.passenger_dest_arrivals[p]
          = Last(sim.passenger_alights[p]) + EgressState(p).linktime

\* C25: a passenger who has alighted from the last trip of its itinerary is
\* ARRIVED when the event pass is over, and its destination arrival time is
\* the alight time plus the egress walk time, whatever events follow the
\* alighting in the stream.
C25_AlightedArrive ==
    PassOver =>
        \A p \in PassengerIds :
            AlightedFromLastTrip(p) =>
                /\ sim.passenger_id_to_state[p].status = STATUS_ARRIVED
                /\ ArrivesAfterEgress(p)

\* what holds instead: such a passenger is ARRIVED with that arrival time,
\* or is still WALKING because no DEPARTURE event at or after the end of
\* its egress walk is left in the stream
C25_AlightedArriveOrWalk ==
    PassOver =>
        \A p \in PassengerIds :
            AlightedFromLastTrip(p) =>
                \/ /\ sim.passenger_id_to_state[p].status = STATUS_ARRIVED
                   /\ ArrivesAfterEgress(p)
                \/ /\ sim.passenger_id_to_state[p].status = STATUS_WALKING
                   /\ p \notin DOMAIN sim.passenger_dest_arrivals
                   /\ ~ \E n \in DOMAIN FT.events :
                         /\ FT.events[n].event_type = EVENT_TYPE_DEPARTURE
                         /\ FT.events[n].event_time
                               >= Last(sim.passenger_alights[p]) + EgressState(p).linktime

\* ----------------------------------------------------------------------
\* bump_wait over a run of assign_paths.

\* no simulation has run yet in this assign_paths run
BeforeFirstSimulation == iteration = 1 /\ ~Simulating /\ num_passengers_arrived = -1

\* bump_wait changes only by a new key or by an earlier time at a key
OnlyTightens ==
    \A key \in DOMAIN bump_wait :
        /\ key \in DOMAIN bump_wait'
        /\ bump_wait'[key] <= bump_wait[key]

\* C26: within one assign_paths run bump_wait is empty before iteration 1
\* and afterwards changes only by adding a key or by replacing a value with
\* a strictly earlier time; no key is removed and no value increases,
\* within an iteration or from one iteration to the next.
C26_BumpWaitOnlyTightens ==
    /\ [](BeforeFirstSimulation => bump_wait = EmptyFn)
    /\ [][OnlyTightens]_vars

\* in a second iteration bump_wait holds a time earlier than the arrival of
\* another passenger bumped at the same trip and stop
C26_Witness ==
    /\ iteration = 2
    /\ Simulating
    /\ \E key \in DOMAIN bump_wait :
          \E a \in ObservedAt(key) : bump_wait[key] < a

\* ----------------------------------------------------------------------
\* The labeling loops.

Labelling == pc \in {"label", "hyperlabel"}

\* a pass of a labeling loop
LabelPass == Labelling /\ pc' = pc

\* the pass expands a stop: it joins stop_done and the pass is counted
Expands(stop_id) ==
    /\ stop_id \notin search.stop_done
    /\ search'.stop_done = search.stop_done \cup {stop_id}
    /\ search'.label_iterations = search.label_iterations + 1

\* the pass skips the popped entry: nothing is marked or relaxed
Skips ==
    /\ search'.stop_done = search.stop_done
    /\ search'.label_iterations = search.label_iterations
    /\ search'.stop_states = search.stop_states
    /\ search'.stop_queue \subseteq search.stop_queue
    /\ search'.stop_queue # search.stop_queue

\* more than the entries one pass can put on the queue: one per transfer
\* of the stop and one per stop of each trip calling there
PutsPerPass == Cardinality(Stops) * (1 + Len(FT.trips)) + 1

\* what is left of a labeling loop: the stops not yet expanded, each good
\* for the entries of one pass, and the entries still queued
LoopVariant(st) ==
    (Cardinality(Stops) - Cardinality(st.stop_done)) * PutsPerPass
        + Cardinality(st.stop_queue)

\* C27: in the deterministic search and in the hyperpath search every pass
\* of the labeling loop either skips the popped entry or expands a stop that
\* was not done, so each stop is expanded at most once in a search, however
\* often it is enqueued; and the loop terminates: its variant, a natural
\* number, decreases with every pass.
C27_ExpandedOnce ==
    /\ [][LabelPass => (Skips \/ \E stop_id \in Stops : Expands(stop_id))]_vars
    /\ [](Labelling =>
            /\ search.label_iterations = Cardinality(search.stop_done)
            /\ search.stop_done \subseteq Stops
            /\ LoopVariant(search) >= 0)
    /\ [][LabelPass => LoopVariant(search') < LoopVariant(search)]_vars

\* the deterministic queue hands out an entry of a stop that is done: the
\* stop was enqueued again with another label after its first entry
C27_Witness ==
    /\ pc = "label"
    /\ search.stop_queue # {}
    /\ QueueHead(search.stop_queue)[2] \in search.stop_done

\* ----------------------------------------------------------------------
\* The hyperpath across sampling attempts.

\* an attempt of choose_path_from_hyperpath_states has failed and the loop
\* of find_trip_based_hyperpath is back at its test
AfterFailedAttempt == pc = "choose" /\ search.attempts > 0

\* the TAZ states as the labeling left them
LabelledTazState ==
    HypTazState(FT, passengers[passenger_id].path, search.stop_states)

\* C28: after a failed sampling attempt the hyperpath is exactly what it was
\* before the attempt: taz_state with every deparr time, and stop_states;
\* the passenger's path.states is empty, so the retry draws from the same
\* candidate states as the first attempt.
C28_FailedAttemptRestores ==
    AfterFailedAttempt =>
        /\ search.taz_state = LabelledTazState
        /\ passengers[passenger_id].states = <<>>

\* what holds instead: stop_states stays, path.states is cleared, and
\* taz_state keeps its states up to the deparr time of the state an
\* outbound attempt started from
C28_FailedAttemptKeepsRevision ==
    /\ [](AfterFailedAttempt =>
            /\ passengers[passenger_id].states = <<>>
            /\ DOMAIN search.taz_state = DOMAIN LabelledTazState
            /\ \A i \in DOMAIN search.taz_state :
                  /\ [search.taz_state[i] EXCEPT !.deparr = 0]
                        = [LabelledTazState[i] EXCEPT !.deparr = 0]
                  /\ ~outbound(passengers[passenger_id].path)
                        => search.taz_state[i] = LabelledTazState[i])
    /\ [][(pc \in {"choose", "chain"} /\ pc' \in {"choose", "chain"})
            => search'.stop_states = search.stop_states]_vars

\* ----------------------------------------------------------------------
\* A deterministic search without a path.

\* find_trip_based_shortest_path returns
DetReturns == pc = "label" /\ pc' = "assign"

\* the anchor TAZ of the search has no access link
NoAccess(path) == DOMAIN FT.access_links[StartTaz(path)] = {}

\* no access stop of the target TAZ holds a trip state
NoTripState(path, stop_states) ==
    ~ \E s \in DOMAIN FT.access_links[EndTaz(path)] :
          s \in DOMAIN stop_states /\ IsTrip(stop_states[s])

\* C29: when find_trip_based_shortest_path finds no path (no access link at
\* the anchor TAZ, no trip state at an access stop of the target TAZ, or an
\* inbound path rejected by the bump-wait check) the passenger's path has no
\* states afterwards, whatever it held from an earlier iteration; the
\* passenger does not count in the paths found and simulate does not load
\* it in that iteration.
C29_NoPathClears ==
    /\ [][DetReturns =>
            LET path   == passengers[passenger_id].path
                states == passengers'[passenger_id].states
            IN  /\ (NoAccess(path) \/ NoTripState(path, search.stop_states))
                      => states = <<>>
                /\ ~path_found(states) =>
                      /\ states = <<>>
                      /\ num_paths_assigned' = num_paths_assigned]_vars
    /\ []((pc = "simulate" /\ Simulating) =>
            \A p \in PassengerIds :
                passengers[p].states = <<>> => p \notin DOMAIN sim.passenger_id_to_state)

\* in the second iteration a passenger bumped in the first, who had an
\* itinerary then, is left without states and is not simulated
C29_Witness ==
    /\ Deterministic
    /\ iteration = 2
    /\ pc = "simulate"
    /\ Simulating
    /\ \E p \in PassengerIds :
          /\ goes_somewhere(passengers[p].path)
          /\ passengers[p].simulation_status = STATUS_BUMPED
          /\ passengers[p].states = <<>>
          /\ p \notin DOMAIN sim.passenger_id_to_state

\* ----------------------------------------------------------------------
\* The life of a passenger in one event pass.

\* the step handles one event of the stream
EventStep ==
    /\ Simulating
    /\ pc = "simulate"
    /\ pc' = "simulate"
    /\ sim.events_simulated < Len(FT.events)
    /\ sim'.events_simulated = sim.events_simulated + 1

HandledEvent == FT.events[sim.events_simulated + 1]

\* simulate's locals between the two loops of a DEPARTURE event (for an
\* ARRIVAL event: after its one loop)
BetweenLoops ==
    IF HandledEvent.event_type = EVENT_TYPE_DEPARTURE
    THEN SimWalks(passengers, HandledEvent, sim.transfer_passengers, sim)
    ELSE SimArrival(passengers, HandledEvent, sim)

StatusEdges ==
    { <<STATUS_WALKING,  STATUS_WAITING>>,
      <<STATUS_WALKING,  STATUS_ARRIVED>>,
      <<STATUS_WAITING,  STATUS_ON_BOARD>>,
      <<STATUS_WAITING,  STATUS_BUMPED>>,
      <<STATUS_ON_BOARD, STATUS_WALKING>> }

\* between two points of the pass every passenger keeps its status or
\* follows one edge
AlongEdges(before, after) ==
    \A p \in DOMAIN before.passenger_id_to_state :
        \/ after.passenger_id_to_state[p].status = before.passenger_id_to_state[p].status
        \/ << before.passenger_id_to_state[p].status,
              after.passenger_id_to_state[p].status >> \in StatusEdges

\* the itinerary state a passenger is at
StateAt(p, sm) == passengers[p].states[sm.passenger_id_to_state[p].path_idx]

\* who boards in the second loop boards the trip of its state at the
\* boarding stop of that state
BoardsAsPlanned(before, after) ==
    \A p \in DOMAIN before.passenger_id_to_state :
        (/\ before.passenger_id_to_state[p].status = STATUS_WAITING
         /\ after.passenger_id_to_state[p].status = STATUS_ON_BOARD)
            => /\ StateAt(p, before).deparrmode = HandledEvent.trip_id
               /\ BoardStop(p, StateAt(p, before)) = HandledEvent.stop_id

\* who alights leaves the trip of its state at the alight stop of that state
AlightsAsPlanned(before, after) ==
    \A p \in DOMAIN before.passenger_id_to_state :
        (/\ before.passenger_id_to_state[p].status = STATUS_ON_BOARD
         /\ after.passenger_id_to_state[p].status = STATUS_WALKING)
            => /\ StateAt(p, before).deparrmode = HandledEvent.trip_id
               /\ AlightStop(p, StateAt(p, before)) = HandledEvent.stop_id
               /\ HandledEvent.event_type = EVENT_TYPE_ARRIVAL

\* C30: in simulate a passenger's status changes only along
\* WALKING -> WAITING, WALKING -> ARRIVED, WAITING -> ON_BOARD,
\* WAITING -> BUMPED and ON_BOARD -> WALKING, so ARRIVED and BUMPED are
\* final for the pass; a passenger boards only the trip its current
\* itinerary state names, at the boarding stop of that state, and alights
\* only at the alight stop of that state.
C30_StatusEdges ==
    [][EventStep =>
         /\ DOMAIN sim'.passenger_id_to_state = DOMAIN sim.passenger_id_to_state
         /\ AlongEdges(sim, BetweenLoops)
         /\ AlongEdges(BetweenLoops, sim')
         /\ BoardsAsPlanned(BetweenLoops, sim')
         /\ AlightsAsPlanned(sim, BetweenLoops)
         /\ AlightsAsPlanned(BetweenLoops, sim')]_vars

\* a pass in which one passenger has boarded, alighted and arrived and
\* another has been bumped
C30_Witness ==
    /\ Simulating
    /\ pc = "simulate"
    /\ \E p \in DOMAIN sim.passenger_id_to_state :
          /\ sim.passenger_id_to_state[p].status = STATUS_ARRIVED
          /\ sim.passenger_alights[p] # <<>>
    /\ \E q \in DOMAIN sim.passenger_id_to_state :
          sim.passenger_id_to_state[q].status = STATUS_BUMPED

\* ----------------------------------------------------------------------
\* Where a passenger is during the event pass.

Occurrences(seq, x) == Cardinality({i \in DOMAIN seq : seq[i] = x})

RECURSIVE SumOver(_, _)
SumOver(f, S) ==
    IF S = {} THEN 0
    ELSE LET x == CHOOSE y \in S : TRUE
         IN  f[x] + SumOver(f, S \ {x})

InTransfer(p) == Occurrences(sim.transfer_passengers, p)

AtStops(p) ==
    SumOver([x \in Stops |-> Occurrences(sim.stop_pax[x], p)], Stops)

OnTrips(p) ==
    SumOver([t \in DOMAIN FT.trips |-> Occurrences(sim.trip_pax[t], p)], DOMAIN FT.trips)

\* the three counts a status asks for
PlaceOf(status) ==
    IF status = STATUS_WALKING THEN <<1, 0, 0>>
    ELSE IF status = STATUS_WAITING THEN <<0, 1, 0>>
    ELSE IF status = STATUS_ON_BOARD THEN <<0, 0, 1>>
    ELSE <<0, 0, 0>>

\* C31: after every event of simulate each passenger loaded with a path is
\* in exactly one place, the one of its status: once in transfer_passengers
\* iff WALKING, once in one stop_pax list iff WAITING, once in one trip_pax
\* list iff ON_BOARD, and in none of them iff ARRIVED or BUMPED.
C31_OnePlace ==
    (Simulating /\ pc = "simulate") =>
        /\ DOMAIN sim.passenger_id_to_state = {p \in PassengerIds : Loaded(p)}
        /\ \A p \in DOMAIN sim.passenger_id_to_state :
              /\ sim.passenger_id_to_state[p].status \in
                    {STATUS_WALKING, STATUS_WAITING, STATUS_ON_BOARD,
                     STATUS_ARRIVED, STATUS_BUMPED}
              /\ <<InTransfer(p), AtStops(p), OnTrips(p)>>
                    = PlaceOf(sim.passenger_id_to_state[p].status)
        /\ \A p \in PassengerIds \ DOMAIN sim.passenger_id_to_state :
              <<InTransfer(p), AtStops(p), OnTrips(p)>> = <<0, 0, 0>>

\* one passenger rides while another, who has alighted, walks
C31_Witness ==
    /\ Simulating
    /\ pc = "simulate"
    /\ \E p, q \in DOMAIN sim.passenger_id_to_state :
          /\ sim.passenger_id_to_state[p].status = STATUS_ON_BOARD
          /\ sim.passenger_id_to_state[q].status = STATUS_WALKING
          /\ sim.passenger_alights[q] # <<>>

\* ----------------------------------------------------------------------
\* The per-trip records of the event pass.

RECURSIVE SeqSum(_)
SeqSum(seq) == IF seq = <<>> THEN 0 ELSE Head(seq) + SeqSum(Tail(seq))

\* every stop visit of the trip has its ARRIVAL event before its DEPARTURE
\* event in the stream
ArrivalThenDeparture(t) ==
    \A q \in DOMAIN FT.trips[t].stops :
        \E m, n \in DOMAIN FT.events :
            /\ m < n
            /\ FT.events[m] = [event_time |-> FT.trips[t].stops[q][STOPS_IDX_ARRIVAL_TIME],
                               stop_id    |-> FT.trips[t].stops[q][STOPS_IDX_STOP_ID],
                               trip_id    |-> t,
                               event_type |-> EVENT_TYPE_ARRIVAL]
            /\ FT.events[n] = [event_time |-> FT.trips[t].stops[q][STOPS_IDX_DEPARTURE_TIME],
                               stop_id    |-> FT.trips[t].stops[q][STOPS_IDX_STOP_ID],
                               trip_id    |-> t,
                               event_type |-> EVENT_TYPE_DEPARTURE]

DetPass == pc = "label" /\ pc' = "label"

\* the pass expands the stop of the popped entry
DetExpands == DetPass /\ search'.label_iterations = search.label_iterations + 1

PoppedEntry == QueueHead(search.stop_queue)

\* C33: in find_trip_based_shortest_path the labels popped for expansion do
\* not decrease (the label of an expanded stop is the label of its state,
\* and no stop done before has a greater one), and the stop_states entry of
\* a stop that is done is never replaced by a later relaxation; with every
\* bump_wait table the simulation produces.
C33_LabelsInOrder ==
    /\ [][DetExpands =>
            /\ PoppedEntry[1] = search.stop_states[PoppedEntry[2]].label
            /\ \A d \in search.stop_done :
                  search.stop_states[d].label <= PoppedEntry[1]]_vars
    /\ [][DetPass =>
            \A d \in search.stop_done :
                /\ d \in DOMAIN search'.stop_states
                /\ search'.stop_states[d] = search.stop_states[d]]_vars

\* an outbound search under a bump_wait table that holds a key of the
\* state being expanded, at a stop with a transfer and with a stop done:
\* the transfer relaxation of this pass carries the bump-wait terms
C33_Witness ==
    /\ pc = "label"
    /\ search.stop_queue # {}
    /\ outbound(passengers[passenger_id].path)
    /\ Cardinality(search.stop_done) >= 1
    /\ PoppedEntry[2] \notin search.stop_done
    /\ << search.stop_states[PoppedEntry[2]].deparrmode, PoppedEntry[2] >>
          \in DOMAIN bump_wait
    /\ DOMAIN FT.transfers[PoppedEntry[2]] # {}

\* ---------------------------------------------------------------------
\* C34  the loop that follows the successor/predecessor fields
\* the stops the loop "while stop_state[DEPARRMODE] != final_state_type"
\* visits from stop_state on, cut off after fuel steps
RECURSIVE FollowedStops(_, _, _, _)
FollowedStops(stop_states, final_state_type, stop_state, fuel) ==
    IF stop_state.deparrmode = final_state_type \/ fuel = 0 THEN << >>
    ELSE IF stop_state.succpred \notin DOMAIN stop_states
    THEN << stop_state.succpred >>
    ELSE << stop_state.succpred >>
         \o FollowedStops(stop_states, final_state_type,
                          stop_states[stop_state.succpred], fuel - 1)

FinalStateType(path) ==
    IF outbound(path) THEN STATE_MODE_EGRESS ELSE STATE_MODE_ACCESS

\* the labeling loop is over and the end TAZ has a state
Reconstructing ==
    /\ pc = "label"
    /\ search.stop_queue = {}
    /\ DetTazState(FT, bump_wait, passengers[passenger_id].path,
                   search.stop_states).label # MAX_TIME

FollowedNow ==
    FollowedStops(search.stop_states,
                  FinalStateType(passengers[passenger_id].path),
                  DetTazState(FT, bump_wait, passengers[passenger_id].path,
                              search.stop_states),
                  Cardinality(Stops) + 1)

\* C34: when the end TAZ has a state, following the successor/predecessor
\* fields from it ends at a state of the final mode (EGRESS for outbound,
\* ACCESS for inbound) after at most as many steps as there are stops, every
\* stop followed has a state and no stop is followed twice, under every
\* bump_wait table the simulation leaves
C34_FollowTerminates ==
    Reconstructing =>
        /\ Len(FollowedNow) >= 1
        /\ Len(FollowedNow) <= Cardinality(Stops)
        /\ \A i \in DOMAIN FollowedNow : FollowedNow[i] \in DOMAIN search.stop_states
        /\ \A i, j \in DOMAIN FollowedNow : i # j => FollowedNow[i] # FollowedNow[j]
        /\ search.stop_states[Last(FollowedNow)].deparrmode
              = FinalStateType(passengers[passenger_id].path)

\* a reconstruction over three stops at least (a transfer or two trips)
\* while bump_wait holds an entry
C34_Witness ==
    /\ Reconstructing
    /\ DOMAIN bump_wait # {}
    /\ Len(FollowedNow) >= 3
    /\ search.stop_states[Last(FollowedNow)].deparrmode
          = FinalStateType(passengers[passenger_id].path)

\* ---------------------------------------------------------------------
\* C35  a feasible single-trip itinerary and the outbound search
\* some trip serves a stop b with an access link of the origin TAZ and later
\* a stop a with an egress link of the destination TAZ, and reaches a within
\* PATH_TIME_WINDOW before (preferred arrival - egress walk)
SingleTripFeasible(path) ==
    \E t \in DOMAIN FT.trips :
        \E i, j \in DOMAIN FT.trips[t].stops :
            LET b == FT.trips[t].stops[i][STOPS_IDX_STOP_ID]
                a == FT.trips[t].stops[j][STOPS_IDX_STOP_ID]
                arrival == FT.trips[t].stops[j][STOPS_IDX_ARRIVAL_TIME]
            IN  /\ i < j
                /\ b \in DOMAIN FT.access_links[path.origin_taz_id]
                /\ a \in DOMAIN FT.access_links[path.destination_taz_id]
                /\ arrival <= path.preferred_time
                                - FT.access_links[path.destination_taz_id][a]
                /\ arrival >= path.preferred_time
                                - FT.access_links[path.destination_taz_id][a]
                                - PATH_TIME_WINDOW

\* the labeling loop of an outbound search is over
OutboundLabelled ==
    /\ pc = "label"
    /\ search.stop_queue = {}
    /\ outbound(passengers[passenger_id].path)

\* C35: with an empty bump_wait, the outbound search returns an itinerary
\* whenever a feasible single-trip itinerary exists
C35_SingleTripFound ==
    (OutboundLabelled /\ bump_wait = EmptyFn
        /\ SingleTripFeasible(passengers[passenger_id].path))
    => path_found(DetPathStates(FT, bump_wait, passengers[passenger_id].path,
                                passengers[passenger_id].states,
                                search.stop_states))

\* ---------------------------------------------------------------------
\* C36  an outbound itinerary is at the destination by the preferred time
\* an outbound itinerary of p saved by find_trip_based_shortest_path
OutboundFound(p) ==
    /\ Deterministic
    /\ Saved(p)
    /\ outbound(passengers[p].path)
    /\ path_found(passengers[p].states)

\* outbound states start with the access link and end with the last trip
\* and, last, the egress link
LastTripState(p) == passengers[p].states[Len(passengers[p].states) - 1]

\* C36: in every outbound itinerary the deterministic search saves, the
\* last state is the egress link of the destination TAZ, the state before it
\* is a trip alighting at the egress stop, and the scheduled arrival of that
\* trip at the egress stop plus the egress walk is at most preferred_time
C36_OutboundOnTime ==
    \A p \in PassengerIds :
        OutboundFound(p) =>
            LET egress == Last(passengers[p].states)
                path   == passengers[p].path
            IN  /\ egress.deparrmode = STATE_MODE_EGRESS
                /\ egress.stop \in DOMAIN FT.access_links[path.destination_taz_id]
                /\ egress.linktime = FT.access_links[path.destination_taz_id][egress.stop]
                /\ IsTrip(LastTripState(p))
                /\ LastTripState(p).succpred = egress.stop
                /\ ScheduledAlight(p, LastTripState(p)) + egress.linktime
                      <= path.preferred_time

\* an outbound itinerary found under a non-empty bump_wait whose last trip
\* leaves the passenger some slack before the preferred time
C36_Witness ==
    \E p \in PassengerIds :
        /\ OutboundFound(p)
        /\ DOMAIN bump_wait # {}
        /\ iteration > 1
        /\ p \in planned
        /\ ScheduledAlight(p, LastTripState(p)) + Last(passengers[p].states).linktime
              < passengers[p].path.preferred_time

\* ---------------------------------------------------------------------
\* C37  an inbound itinerary after the delay-departure step
\* an inbound itinerary of p saved by find_trip_based_shortest_path
InboundSaved(p) ==
    /\ Deterministic
    /\ Saved(p)
    /\ ~outbound(passengers[p].path)
    /\ path_found(passengers[p].states)

\* the time at which the itinerary has p leave the origin TAZ
LeavesOrigin(p) == AccessState(p).deparr - AccessState(p).linktime

\* C37: in every inbound itinerary the deterministic search saves, the
\* passenger leaves the origin TAZ no earlier than preferred_time (arrival
\* time of the access state - access walk >= preferred_time) and reaches the
\* first boarding stop no later than the scheduled departure of the first
\* trip there
C37_InboundNotBeforePreferred ==
    \A p \in PassengerIds :
        InboundSaved(p) =>
            /\ LeavesOrigin(p) >= passengers[p].path.preferred_time
            /\ ReachesBoardStop(p) <= ScheduledFirstBoarding(p)

\* =================================================== get_scheduled_departure
\* Trip.get_scheduled_departure on its own: the stop-time rows of trip 1,
\* the trip id and the stop id are drawn, one step makes the call.  Row i of
\* trip 1 arrives ten minutes after row i - 1 and departs after a dwell of
\* zero or one minute, so no two rows of a trip share a departure time; a
\* stop id can occur in more than one row.  search holds the arguments and
\* what the call gave.
MaxRows == 3

StopTimes(stop_ids, dwells) ==
    [i \in DOMAIN stop_ids |->
        << stop_ids[i],
           Clock(7, 0) + 10 * i * Minute,
           Clock(7, 0) + 10 * i * Minute + dwells[i] * Minute >>]

StopTimeLists ==
    UNION {{StopTimes(stop_ids, dwells) :
               stop_ids \in [1 .. n -> Stops], dwells \in [1 .. n -> {0, 1}]} :
           n \in 1 .. MaxRows}

InitDeparture ==
    /\ \E stop_times \in StopTimeLists :
          LET net == [NetOne EXCEPT !.trips =
                         << [stops |-> stop_times], NetOne.trips[1] >>]
          IN  FT = net @@ [capacity |-> Vehicles(net, 0),
                           events   |-> Events(net.trips)]
    /\ cfg = [ITERATION_FLAG      |-> 1,
              ASSIGNMENT_TYPE     |-> ASSIGNMENT_TYPE_DET_ASGN,
              SIMULATION_FLAG     |-> FALSE,
              CAPACITY_CONSTRAINT |-> FALSE,
              MAX_HYPERPATH_ASSIGN_ATTEMPTS |-> MaxAttempts]
    /\ passengers = [p \in PassengerIds |->
                        NewPassenger(CHOOSE r \in NetOne.requests :
                                        outbound(r) /\ goes_somewhere(r))]
    /\ bump_wait = EmptyFn
    /\ iteration = 1
    /\ pc = "lookup"
    /\ passenger_id = 1
    /\ num_paths_assigned = 0
    /\ num_passengers_arrived = -1
    /\ sim = NoSim
    /\ raised = ""
    /\ planned = {}
    /\ bumped_obs = {}
    /\ capacity_gaps = <<>>
    /\ seat_obs = {}
    /\ \E trip_id \in 1 .. 2, stop_id \in Stops :
          search = [trip_id |-> trip_id, stop_id |-> stop_id,
                    returned |-> -1, message |-> << >>]

\* the call: it returns a time or raises
LookupDeparture ==
    /\ pc = "lookup"
    /\ LET result == ScanDeparture(FT.trips[search.trip_id].stops,
                                   search.trip_id, search.stop_id)
       IN  IF "time" \in DOMAIN result
           THEN /\ search' = [search EXCEPT !.returned = result.time]
                /\ pc' = "returned"
                /\ UNCHANGED raised
           ELSE /\ search' = [search EXCEPT !.message = result.exception]
                /\ raised' = "Exception"
                /\ pc' = "not_found"
    /\ UNCHANGED << FT, cfg, passengers, bump_wait, iteration, passenger_id,
                    num_paths_assigned, num_passengers_arrived, sim, planned,
                    bumped_obs, capacity_gaps, seat_obs >>

NextDeparture == LookupDeparture

SpecDeparture == InitDeparture /\ [][NextDeparture]_vars

\* ------------------------------------------------------------------- C38
LookedUpRows == FT.trips[search.trip_id].stops

RowsOfStop == {i \in DOMAIN LookedUpRows :
                  LookedUpRows[i][STOPS_IDX_STOP_ID] = search.stop_id}

FirstRowOfStop == CHOOSE i \in RowsOfStop : \A j \in RowsOfStop : i <= j

====
